---------------------------- MODULE Spec2Model ----------------------------
(***************************************************************************)
(* Passface: deterministic signing keys derived from passkey credentials,  *)
(* an AES-GCM protected key vault in IndexedDB, and RFC 6979 signatures.   *)
(*                                                                         *)
(* The library primitives the code calls (SHA-256, HMAC/HKDF, AES-GCM,     *)
(* secp256k1) are computed, at a reduced width: a digest, a scalar and a   *)
(* field element are 16 bits (2 bytes) where the program has 256 bits (32  *)
(* bytes), and the curve is y^2 = x^3 + 7 (the secp256k1 equation) over a  *)
(* 16-bit prime field with a group of prime order.  Every width that the   *)
(* program writes as a number (64 hex digits, 12-byte iv, 16-byte salt)    *)
(* appears here as a named definition with the reduced value.              *)
(***************************************************************************)
EXTENDS Integers, Sequences, FiniteSets, Bags, TLC

-----------------------------------------------------------------------------
(* Bounds of the model.                                                     *)

\* Identifiers (credentialId, userId) are the strings over 'a','b' of at
\* most this length, the empty string included.
MaxIdLen == 2
\* Messages are the byte strings over MessageBytes of at most this length.
MaxMsgLen == 2
\* crypto.getRandomValues draws from this many seeds.
NumSeeds == 2
MaxDraws == 4
\* Date.now() runs from 0 to this.
MaxClock == 1
\* The re-hash loop's iteration counter stops counting here.
MaxIter == 3
MaxPwLen == 1
MaxOps == 2
\* One session signs at most this many messages.
MaxSigns == 2
\* Date.now() runs up to this while session data is stored and read.
MaxSessionClock == 3

VARIABLES
    entropy,    \* the position of crypto.getRandomValues in its stream of bytes
    now,        \* Date.now()
    store,      \* IndexedDB object store 'signing-keys': a set of records
    session,    \* sessionStorage: credentialId -> the item key-password-<id>
    available,  \* whether IndexedDB can be opened, read and written
    signingKey, \* the signingKey state of the PasskeyAuth component
    tasks,      \* the asynchronous calls in flight, each with its position
    written,    \* per id, the last write of 'signing-keys' (history)
    puts,       \* the salt and iv of every record storeKey has put (history)
    ops,        \* the number of calls started (history)
    kd,         \* a caller of KeyDerivation.deriveSigningKey
    sg,         \* a caller of MessageSigner
    ci,         \* a caller of Encryption
    srv,        \* the server: challenges issued, users, credentials, last answer
    sd          \* IndexedDB object store 'session-data' and a caller of it

ambientVars == <<entropy, now>>
vaultVars == <<store, session, available>>
appVars == <<signingKey, tasks, written, puts, ops>>

vars == <<entropy, now, store, session, available, signingKey, tasks, written, puts, ops,
          kd, sg, ci, srv, sd>>

-----------------------------------------------------------------------------
(* Bytes and strings.  A Uint8Array is a sequence of 0..255; a JavaScript   *)
(* string is a sequence of UTF-16 code units.                               *)

Byte == 0..255

\* const v = ...; then the statements that follow, as Body: the value is
\* computed once, before the statements that use it.
Let(v, Body(_)) == <<v, Body(v)>>[2]

\* The concatenation of a sequence of sequences, by halves.
RECURSIVE Flatten(_)
Flatten(ss) ==
    IF Len(ss) = 0 THEN <<>>
    ELSE IF Len(ss) = 1 THEN ss[1]
    ELSE Flatten(SubSeq(ss, 1, Len(ss) \div 2))
            \o Flatten(SubSeq(ss, Len(ss) \div 2 + 1, Len(ss)))

\* The e-fold product of a with itself under Op, by repeated squaring: sq
\* is a to the power of the current bit, acc the product for the bits below.
RECURSIVE LadderFrom(_, _, _, _)
LadderFrom(Op(_, _), sq, acc, e) ==
    IF e = 0 THEN acc
    ELSE IF sq = sq /\ acc = acc
    THEN LadderFrom(Op, Op(sq, sq), IF e % 2 = 1 THEN Op(acc, sq) ELSE acc, e \div 2)
    ELSE acc

Ladder(Op(_, _), unit, a, e) == LadderFrom(Op, a, unit, e)

\* a^e modulo m.
PowMod(a, e, m) == Ladder(LAMBDA x, y : (x * y) % m, 1, a % m, e)

\* new TextEncoder().encode(s): UTF-8 of the UTF-16 code units of s.  A
\* high surrogate followed by a low one is one code point of four bytes; a
\* surrogate on its own is replaced by U+FFFD.
IsHighSurrogate(c) == c >= 55296 /\ c <= 56319
IsLowSurrogate(c) == c >= 56320 /\ c <= 57343

Utf8(cp) ==
    IF cp < 128 THEN <<cp>>
    ELSE IF cp < 2048 THEN <<192 + (cp \div 64), 128 + (cp % 64)>>
    ELSE IF cp < 65536
    THEN <<224 + (cp \div 4096), 128 + ((cp \div 64) % 64), 128 + (cp % 64)>>
    ELSE <<240 + (cp \div 262144), 128 + ((cp \div 4096) % 64),
           128 + ((cp \div 64) % 64), 128 + (cp % 64)>>

ReplacementChar == 65533

\* The bytes the code unit at i gives: none for a low surrogate that the
\* high surrogate before it has taken.
TextEncodeUnit(s, i) ==
    LET c == s[i]
    IN  IF IsHighSurrogate(c) /\ i < Len(s) /\ IsLowSurrogate(s[i + 1])
        THEN Utf8(65536 + (c - 55296) * 1024 + (s[i + 1] - 56320))
        ELSE IF IsLowSurrogate(c) /\ i > 1 /\ IsHighSurrogate(s[i - 1]) THEN <<>>
        ELSE IF IsHighSurrogate(c) \/ IsLowSurrogate(c) THEN Utf8(ReplacementChar)
        ELSE Utf8(c)

TextEncode(s) == Flatten([i \in 1..Len(s) |-> TextEncodeUnit(s, i)])

\* n.toString(): the decimal digits of a non-negative integer, as code units.
RECURSIVE DecimalString(_)
DecimalString(n) ==
    IF n < 10 THEN <<48 + n>>
    ELSE DecimalString(n \div 10) \o <<48 + (n % 10)>>

\* The value of a big-endian byte string.
RECURSIVE BytesToInt(_)
BytesToInt(b) ==
    IF b = <<>> THEN 0 ELSE BytesToInt(SubSeq(b, 1, Len(b) - 1)) * 256 + b[Len(b)]

HashLen == 2

\* A HashLen-byte big-endian string of a value below 256^HashLen.
IntToBytes(v) == Let(v, LAMBDA n : <<n \div 256, n % 256>>)


-----------------------------------------------------------------------------
(* SHA-256, HMAC and HKDF (@noble/hashes), at HashLen bytes of digest.      *)

Sha256Modulus == 65521
Sha256Multiplier == 31421
Sha256Iv == 27145

\* a * b modulo Sha256Modulus, in two halves so that no product overflows.
Sha256MulMod(a, b) ==
    ((((a * (b \div 256)) % Sha256Modulus) * 256) + a * (b % 256)) % Sha256Modulus

\* The multiplier to the power i.
Sha256Weight(i) == Ladder(Sha256MulMod, 1, Sha256Multiplier, i)

\* The state after the bytes b: each byte, plus one, is weighed by the
\* multiplier to the power of its distance from the end.
Sha256Absorb(h, b) ==
    (Sha256MulMod(h, Sha256Weight(Len(b)))
        + BagCardinality([i \in 1..Len(b) |-> (b[i] + 1) * Sha256Weight(Len(b) - i)]))
    % Sha256Modulus

\* sha256(bytes): the digest, HashLen bytes; the length is absorbed last.
Sha256(b) ==
    Let(b, LAMBDA bytes :
    Let(Sha256Absorb(Sha256Iv, bytes), LAMBDA state :
        IntToBytes(Sha256Absorb(state, <<Len(bytes)>>))))

HmacBlockLen == 4
HmacIpad == 54
HmacOpad == 92

ZeroBytes(n) == [i \in 1..n |-> 0]

HmacMask(key, pad) == [i \in 1..Len(key) |-> (key[i] + pad) % 256]

\* hmac(sha256, key, msg): a key longer than a block is hashed, then padded
\* with zeros to the block; inner and outer digests under the two masks.
Hmac(key, msg) ==
    Let(IF Len(key) > HmacBlockLen THEN Sha256(key) ELSE key, LAMBDA k0 :
    Let(k0 \o ZeroBytes(HmacBlockLen - Len(k0)), LAMBDA k :
    Let(Sha256(HmacMask(k, HmacIpad) \o msg), LAMBDA inner :
        Sha256(HmacMask(k, HmacOpad) \o inner))))

\* An optional argument: <<>> when it is undefined, <<v>> when it is v.
Undefined == <<>>
Some(v) == <<v>>

\* hkdf(sha256, ikm, salt, info, HashLen): extract with the salt (HashLen
\* zero bytes when undefined), then one block of expand.
Hkdf(ikm, salt, info) ==
    Let(IF salt = Undefined THEN ZeroBytes(HashLen) ELSE salt[1], LAMBDA s :
    Let(Hmac(s, ikm), LAMBDA prk :
        Hmac(prk, info \o <<1>>)))

-----------------------------------------------------------------------------
(* secp256k1 (@noble/secp256k1) at 16 bits: y^2 = x^3 + 7 over GF(FieldP),  *)
(* a group of prime order CurveN < FieldP, FieldP = 3 (mod 4).              *)

FieldP == 44647
CurveN == 44563
CurveB == 7

InvMod(a, m) == PowMod(a, m - 2, m)

Infinity == <<>>

\* y^2 = x^3 + 7 at x: the right-hand side.
CurveRhs(x) == (((((x * x) % FieldP) * x) % FieldP) + CurveB) % FieldP

OnCurve(pt) ==
    /\ pt # Infinity
    /\ pt[1] \in 0..(FieldP - 1) /\ pt[2] \in 0..(FieldP - 1)
    /\ (pt[2] * pt[2]) % FieldP = CurveRhs(pt[1])

PointAdd(a, b) ==
    IF a = Infinity THEN b
    ELSE IF b = Infinity THEN a
    ELSE IF a[1] = b[1] /\ (a[2] + b[2]) % FieldP = 0 THEN Infinity
    ELSE Let(IF a = b
             THEN (((3 * ((a[1] * a[1]) % FieldP)) % FieldP)
                     * InvMod((2 * a[2]) % FieldP, FieldP)) % FieldP
             ELSE (((b[2] - a[2]) % FieldP)
                     * InvMod((b[1] - a[1]) % FieldP, FieldP)) % FieldP, LAMBDA l :
         Let((((l * l) % FieldP) - a[1] - b[1]) % FieldP, LAMBDA x :
             <<x, (((l * ((a[1] - x) % FieldP)) % FieldP) - a[2]) % FieldP>>))

\* k times the point, by double-and-add.
PointMul(k, pt) == Ladder(PointAdd, Infinity, pt, k)

\* The base point.
CurveG == <<1, 21171>>

\* crypto.getRandomValues(new Uint8Array(len)): the draw-th draw of a call.
GetRandomValues(len, draw) ==
    [i \in 1..len |-> (entropy * 37 + draw * 101 + i * 7) % 256]

\* A thrown exception or a returned value: err is "" for a normal return.
Return(v) == [err |-> "", val |-> <<v>>]
Throw(e) == [err |-> e, val |-> <<>>]
Threw(res) == res.err # ""
Value(res) == res.val[1]

-----------------------------------------------------------------------------
(* KeyDerivation (src/lib/crypto/keyDerivation.ts).                          *)

KeyLen == 2

\* 'passface-signing-key-v1'
SigningKeyInfo == TextEncode(<<112, 97, 115, 115, 102, 97, 99, 101, 45, 115, 105, 103, 110, 105, 110, 103, 45, 107, 101, 121, 45, 118, 49>>)

\* secp256k1.utils.isValidSecretKey: KeyLen bytes whose value is in 1..n-1.
isValidSecretKeyInclusive(key) ==
    /\ Len(key) = KeyLen
    /\ BytesToInt(key) >= 0
    /\ BytesToInt(key) <= CurveN

isValidSecretKey(key) ==
    /\ Len(key) = KeyLen
    /\ BytesToInt(key) >= 1
    /\ BytesToInt(key) < CurveN

RECURSIVE ensureValidPrivateKey(_)
ensureValidPrivateKey(key) ==
    IF isValidSecretKey(key) THEN key ELSE ensureValidPrivateKey(Sha256(key))

\* Lines 22-29 of deriveSigningKey with the salt drawn at random when the
\* caller gives none.
deriveCandidateRandomSalt(credentialId, userId, salt) ==
    Hkdf(TextEncode(credentialId \o userId),
         IF salt = Undefined THEN Some(GetRandomValues(HashLen, 0)) ELSE salt,
         SigningKeyInfo)

\* Lines 22-29 of deriveSigningKey: the HKDF output before it is validated.
\* The input key material: the encoding of credentialId + userId.
InputKeyMaterial(credentialId, userId) == TextEncode(credentialId \o userId)

deriveCandidate(credentialId, userId, salt) ==
    LET info       == SigningKeyInfo
        ikm        == InputKeyMaterial(credentialId, userId)
        derivedKey == Hkdf(ikm, salt, info)
    IN  derivedKey

deriveSigningKey(credentialId, userId, salt) ==
    ensureValidPrivateKey(deriveCandidate(credentialId, userId, salt))

\* Point.toBytes(true): the parity byte 2 or 3, then x.
CompressPoint(pt) == <<2 + (pt[2] % 2)>> \o IntToBytes(pt[1])

\* secp256k1.getPublicKey(privateKey, true)
getPublicKey(privateKey) == CompressPoint(PointMul(BytesToInt(privateKey), CurveG))

-----------------------------------------------------------------------------
(* Hexadecimal strings: BigInt.prototype.toString(16), String.padStart,     *)
(* BigInt('0x...') and parseInt(..., 16).                                   *)

HexDigit(v) == IF v < 10 THEN 48 + v ELSE 87 + v

RECURSIVE ToHex(_)
ToHex(n) == IF n < 16 THEN <<HexDigit(n)>> ELSE ToHex(n \div 16) \o <<HexDigit(n % 16)>>

RECURSIVE PadStart(_, _, _)
PadStart(str, width, ch) ==
    IF Len(str) >= width THEN str ELSE PadStart(<<ch>> \o str, width, ch)

HexValue(c) ==
    IF c \in 48..57 THEN c - 48
    ELSE IF c \in 97..102 THEN c - 87
    ELSE IF c \in 65..70 THEN c - 55
    ELSE -1

RECURSIVE HexNumber(_)
HexNumber(str) ==
    IF str = <<>> THEN 0
    ELSE HexNumber(SubSeq(str, 1, Len(str) - 1)) * 16 + HexValue(str[Len(str)])

\* BigInt('0x' + str): a SyntaxError unless str is one or more hex digits.
BigIntHex(str) ==
    IF str = <<>> \/ \E i \in 1..Len(str) : HexValue(str[i]) < 0
    THEN Throw("SyntaxError")
    ELSE Return(HexNumber(str))

\* str.slice(from, to) with 0 <= from <= to: code units from .. to-1.
Slice(str, from, to) ==
    SubSeq(str, from + 1, IF to > Len(str) THEN Len(str) ELSE to)

StartsWith0x(str) == Len(str) >= 2 /\ str[1] = 48 /\ str[2] = 120

\* The value parseInt gives when the string does not start with a digit.
NaN == -1

\* The hex digits a string starts with.
RECURSIVE HexPrefix(_)
HexPrefix(str) ==
    IF str = <<>> \/ HexValue(str[1]) < 0 THEN <<>>
    ELSE <<str[1]>> \o HexPrefix(Tail(str))

\* parseInt(str, 16): the number the leading hex digits spell, NaN without
\* any.
ParseInt16(str) == IF HexPrefix(str) = <<>> THEN NaN ELSE HexNumber(HexPrefix(str))

-----------------------------------------------------------------------------
(* ECDSA of @noble/secp256k1: signAsync, Signature, verifyAsync.             *)

\* bits2int_modN: the digest as a scalar.
Bits2IntModN(hash) == BytesToInt(hash) % CurveN

HighS(sv) == sv > CurveN \div 2

\* The options signAsync and verifyAsync take when the caller gives none.
DefaultSignOpts == [prehash |-> TRUE, format |-> "compact", extraEntropy |-> FALSE]
DefaultVerifyOpts == [prehash |-> TRUE, lowS |-> TRUE]

\* One RFC 6979 candidate nonce: HMAC keyed by the private key over the
\* digest, the extra entropy (empty when the option is off) and the retry
\* counter.
NonceCandidate(privateKey, hash, extra, try) ==
    BytesToInt(Hmac(privateKey, hash \o extra \o <<try>>))

\* k2sig: the signature for nonce k, or <<>> when k, r or s is unusable.
\* The recovery id is bit 1 = (x overflowed n), bit 0 = (y is odd); lowS
\* replaces a high s by n - s and flips bit 0.
K2Sig(privateKey, hash, k) ==
    IF k < 1 \/ k >= CurveN THEN <<>>
    ELSE Let(PointMul(k, CurveG), LAMBDA q :
         Let(q[1] % CurveN, LAMBDA qr :
         Let((InvMod(k, CurveN)
                * ((Bits2IntModN(hash) + ((qr * BytesToInt(privateKey)) % CurveN))
                      % CurveN)) % CurveN, LAMBDA qs :
         Let((IF q[1] = qr THEN 0 ELSE 2) + (q[2] % 2), LAMBDA qrec :
             IF qr = 0 \/ qs = 0 THEN <<>>
             ELSE IF HighS(qs)
                  THEN <<[r |-> qr, s |-> CurveN - qs,
                          recovery |-> IF qrec % 2 = 0 THEN qrec + 1 ELSE qrec - 1]>>
                  ELSE <<[r |-> qr, s |-> qs, recovery |-> qrec]>>))))

RECURSIVE SignFrom(_, _, _, _)
SignFrom(privateKey, hash, extra, try) ==
    Let(NonceCandidate(privateKey, hash, extra, try), LAMBDA k :
    Let(K2Sig(privateKey, hash, k), LAMBDA cand :
        IF cand = <<>> THEN SignFrom(privateKey, hash, extra, try + 1) ELSE cand[1]))

\* Signature.toBytes('recovered'): the recovery byte, then r, then s.
SigToBytesRecovered(sig) == <<sig.recovery>> \o IntToBytes(sig.r) \o IntToBytes(sig.s)

\* Signature.toBytes('compact'): r, then s.
SigToBytesCompact(sig) == IntToBytes(sig.r) \o IntToBytes(sig.s)

\* secp256k1.signAsync(message, privateKey, opts): the message is hashed
\* first when opts.prehash; random bytes enter the nonce when
\* opts.extraEntropy.
SignAsync(message, privateKey, opts) ==
    Let(IF opts.prehash THEN Sha256(message) ELSE message, LAMBDA digest :
    Let(IF opts.extraEntropy THEN GetRandomValues(KeyLen, 0) ELSE <<>>, LAMBDA extra :
    Let(SignFrom(privateKey, digest, extra, 0), LAMBDA made :
        IF opts.format = "recovered" THEN SigToBytesRecovered(made)
        ELSE SigToBytesCompact(made))))

\* Signature.fromBytes(bytes, 'recovered')
SigFromBytesRecovered(b) ==
    Let(b, LAMBDA bytes :
        [r |-> BytesToInt(SubSeq(bytes, 2, 1 + KeyLen)),
         s |-> BytesToInt(SubSeq(bytes, 2 + KeyLen, 1 + 2 * KeyLen)),
         recovery |-> bytes[1]])

\* new secp256k1.Signature(r, s): r and s must be in 1..n-1.
NewSignature(rv, sv) ==
    IF rv >= 1 /\ rv < CurveN /\ sv >= 1 /\ sv < CurveN
    THEN Return([r |-> rv, s |-> sv])
    ELSE Throw("Error")

\* new Signature(r, s, recovery): r and s are checked, recovery is taken as
\* it is.
NewSignatureRecovery(rv, sv, recovery) ==
    IF Threw(NewSignature(rv, sv)) THEN Throw("Error")
    ELSE Return([r |-> rv, s |-> sv, recovery |-> recovery])

\* sig.toBytes('recovered'): the recovery bit has to be 0, 1, 2 or 3.
SigToBytesRecoveredChecked(sig) ==
    IF sig.recovery \notin 0..3 THEN Throw("Error")
    ELSE Return(SigToBytesRecovered(sig))

\* Point.fromBytes of a compressed point: lift x with the parity of the
\* first byte; <<>> when the bytes are no point of the curve.
DecompressPoint(b) ==
    IF Len(b) # 1 + KeyLen \/ b[1] \notin {2, 3} THEN <<>>
    ELSE Let(BytesToInt(SubSeq(b, 2, Len(b))), LAMBDA x :
         Let(CurveRhs(x % FieldP), LAMBDA rhs :
         Let(PowMod(rhs, (FieldP + 1) \div 4, FieldP), LAMBDA y0 :
         Let(IF y0 % 2 = b[1] % 2 THEN y0 ELSE (FieldP - y0) % FieldP, LAMBDA y :
             IF x >= FieldP \/ (y0 * y0) % FieldP # rhs THEN <<>> ELSE <<<<x, y>>>>))))

\* secp256k1.verifyAsync(compactSig, message, publicKey, opts): every
\* failure inside is answered false; a high s is refused when opts.lowS.
VerifyAsync(compactSig, message, publicKey, opts) ==
    Let(IF opts.prehash THEN Sha256(message) ELSE message, LAMBDA digest :
    Let(BytesToInt(SubSeq(compactSig, 1, KeyLen)), LAMBDA sigR :
    Let(BytesToInt(SubSeq(compactSig, KeyLen + 1, 2 * KeyLen)), LAMBDA sigS :
    Let(DecompressPoint(publicKey), LAMBDA pubPt :
        IF Len(compactSig) # 2 * KeyLen THEN FALSE
        ELSE IF Threw(NewSignature(sigR, sigS)) \/ pubPt = <<>> THEN FALSE
        ELSE IF opts.lowS /\ HighS(sigS) THEN FALSE
        ELSE Let(InvMod(sigS, CurveN), LAMBDA sInv :
             Let(PointMul((Bits2IntModN(digest) * sInv) % CurveN, CurveG), LAMBDA g1 :
             Let(PointMul((sigR * sInv) % CurveN, pubPt[1]), LAMBDA q2 :
             Let(PointAdd(g1, q2), LAMBDA sum :
                 sum # Infinity /\ sum[1] % CurveN = sigR))))))))

-----------------------------------------------------------------------------
(* MessageSigner: EIP-191 prefixing, signing and verification.              *)

\* '\x19Ethereum Signed Message:\n'
MessagePrefix ==
    <<25, 69, 116, 104, 101, 114, 101, 117, 109, 32, 83, 105, 103, 110, 101, 100, 32, 77, 101, 115, 115, 97, 103, 101, 58, 10>>

\* new TextEncoder().encode(prefix)
MessagePrefixBytes == TextEncode(MessagePrefix)

\* The width r and s are padded to, in hex digits.
SigHexLen == 4

prefixMessageNoBody(message) ==
    MessagePrefixBytes \o TextEncode(DecimalString(Len(message)))

prefixMessage(message) ==
    Let(MessagePrefixBytes, LAMBDA prefixBytes :
    Let(TextEncode(DecimalString(Len(message))), LAMBDA lengthBytes :
        prefixBytes \o lengthBytes \o message))

RecoveryOffset == 27

\* formatSignature without the zero padding of r and s.
formatSignatureUnpadded(sig) ==
    Let(ToHex(sig.r), LAMBDA r :
    Let(ToHex(sig.s), LAMBDA s :
    Let(sig.recovery + RecoveryOffset, LAMBDA vNum :
    Let(PadStart(ToHex(vNum), 2, 48), LAMBDA vHex :
        <<48, 120>> \o r \o s \o vHex))))

formatSignature(sig) ==
    Let(PadStart(ToHex(sig.r), SigHexLen, 48), LAMBDA r :
    Let(PadStart(ToHex(sig.s), SigHexLen, 48), LAMBDA s :
    Let(sig.recovery + RecoveryOffset, LAMBDA vNum :
    Let(PadStart(ToHex(vNum), 2, 48), LAMBDA vHex :
        <<48, 120>> \o r \o s \o vHex))))

\* The options signMessage gives signAsync.
SignOptsExtraEntropy == [prehash |-> FALSE, format |-> "recovered", extraEntropy |-> TRUE]

SignOpts == [prehash |-> FALSE, format |-> "recovered", extraEntropy |-> FALSE]

\* The options verifySignature gives verifyAsync (lowS by default).
VerifyOptsPrehash == [prehash |-> TRUE, lowS |-> TRUE]

VerifyOpts == [prehash |-> FALSE, lowS |-> TRUE]

\* signMessage on the bytes of the message.
signMessage(messageBytes, privateKey) ==
    Let(prefixMessage(messageBytes), LAMBDA prefixedMessage :
    Let(Sha256(prefixedMessage), LAMBDA messageHash :
    Let(SignAsync(messageHash, privateKey, SignOpts), LAMBDA signatureBytes :
    Let(SigFromBytesRecovered(signatureBytes), LAMBDA sigObject :
        formatSignature(sigObject)))))

\* verifySignature: the body of the try block, and false from the catch.
verifySignature(messageBytes, signature, publicKey) ==
    Let(prefixMessage(messageBytes), LAMBDA prefixedMessage :
    Let(Sha256(prefixedMessage), LAMBDA messageHash :
    Let(IF StartsWith0x(signature) THEN Slice(signature, 2, Len(signature))
        ELSE signature, LAMBDA sigHex :
    Let(BigIntHex(Slice(sigHex, 0, SigHexLen)), LAMBDA r :
    Let(BigIntHex(Slice(sigHex, SigHexLen, 2 * SigHexLen)), LAMBDA s :
        IF Threw(r) \/ Threw(s) THEN FALSE
        ELSE Let(NewSignature(Value(r), Value(s)), LAMBDA parsed :
                 IF Threw(parsed) THEN FALSE
                 ELSE VerifyAsync(SigToBytesCompact(Value(parsed)), messageHash,
                                  publicKey, VerifyOpts)))))))

-----------------------------------------------------------------------------
(* AES-GCM of the Web Crypto API (crypto.subtle), with a HashLen-byte tag.  *)

AesGcmTagLen == 2

\* The i-th byte of the key stream under (key, iv).
AesGcmKeystream(key, iv, i) == Sha256(key \o iv \o <<i>>)[HashLen]

\* The authentication tag of a ciphertext under (key, iv).
AesGcmTag(key, iv, ct) == Hmac(key, <<Len(iv)>> \o iv \o ct)

\* crypto.subtle.encrypt({name: 'AES-GCM', iv}, key, data): the ciphertext
\* with the tag appended.
AesGcmEncrypt(key, iv, data) ==
    Let([i \in 1..Len(data) |-> (data[i] + AesGcmKeystream(key, iv, i)) % 256],
        LAMBDA ct : ct \o AesGcmTag(key, iv, ct))

\* crypto.subtle.decrypt: an OperationError unless the tag verifies.
AesGcmDecrypt(key, iv, enc) ==
    IF Len(enc) < AesGcmTagLen THEN Throw("OperationError")
    ELSE Let(SubSeq(enc, 1, Len(enc) - AesGcmTagLen), LAMBDA ct :
         Let(SubSeq(enc, Len(enc) - AesGcmTagLen + 1, Len(enc)), LAMBDA tag :
             IF tag # AesGcmTag(key, iv, ct) THEN Throw("OperationError")
             ELSE Return([i \in 1..Len(ct) |->
                            (ct[i] + 256 - AesGcmKeystream(key, iv, i)) % 256])))

-----------------------------------------------------------------------------
(* Encryption: password-based AES-GCM with an HKDF-derived key.             *)

\* 'passface-encryption-key-v1'
EncryptionInfo == TextEncode(<<112, 97, 115, 115, 102, 97, 99, 101, 45, 101, 110, 99, 114, 121, 112, 116, 105, 111, 110, 45, 107, 101, 121, 45, 118, 49>>)

\* The lengths of the random salt, iv and password bytes.
SaltLen == 2
IvLen == 1
PasswordLen == 1

\* The key of the cipher for a password and a salt (lines 199-201, 252-254).
EncryptionKey(password, salt) ==
    Let(TextEncode(password), LAMBDA passwordBytes :
    Let(EncryptionInfo, LAMBDA info :
        Hkdf(passwordBytes, Some(salt), info)))

\* Encryption.encrypt with the iv left out of the result's ciphertext key.
\* encrypt that leaves the data as it is.
encryptPlain(data, password) ==
    Let(GetRandomValues(SaltLen, 0), LAMBDA salt :
    Let(GetRandomValues(IvLen, 1), LAMBDA iv :
        [encryptedData |-> data, iv |-> iv, salt |-> salt]))

\* encrypt with a salt and an iv that are not drawn.
encryptWithoutDraw(data, password) ==
    Let(ZeroBytes(SaltLen), LAMBDA salt :
    Let(ZeroBytes(IvLen), LAMBDA iv :
    Let(EncryptionKey(password, salt), LAMBDA derivedKey :
        [encryptedData |-> AesGcmEncrypt(derivedKey, iv, data),
         iv |-> iv, salt |-> salt])))

encryptFixedIv(data, password) ==
    Let(GetRandomValues(SaltLen, 0), LAMBDA salt :
    Let(GetRandomValues(IvLen, 1), LAMBDA iv :
    Let(EncryptionKey(password, salt), LAMBDA derivedKey :
        [encryptedData |-> AesGcmEncrypt(derivedKey, ZeroBytes(IvLen), data),
         iv |-> iv, salt |-> salt])))

\* Encryption.encrypt: salt and iv are drawn at random.
encrypt(data, password) ==
    Let(GetRandomValues(SaltLen, 0), LAMBDA salt :
    Let(GetRandomValues(IvLen, 1), LAMBDA iv :
    Let(EncryptionKey(password, salt), LAMBDA derivedKey :
        [encryptedData |-> AesGcmEncrypt(derivedKey, iv, data),
         iv |-> iv, salt |-> salt])))

\* Encryption.decrypt: the plaintext, or the rejection of crypto.subtle.decrypt.
decrypt(encryptedData, iv, salt, password) ==
    Let(EncryptionKey(password, salt), LAMBDA derivedKey :
        AesGcmDecrypt(derivedKey, iv, encryptedData))

\* btoa / atob: the base64 alphabet as code units, '=' for padding.
Base64Char(v) ==
    IF v < 26 THEN 65 + v
    ELSE IF v < 52 THEN 71 + v
    ELSE IF v < 62 THEN v - 4
    ELSE IF v = 62 THEN 43 ELSE 47

Base64Value(c) ==
    IF c \in 65..90 THEN c - 65
    ELSE IF c \in 97..122 THEN c - 71
    ELSE IF c \in 48..57 THEN c + 4
    ELSE IF c = 43 THEN 62
    ELSE IF c = 47 THEN 63
    ELSE -1

RECURSIVE bytesToBase64(_)
bytesToBase64(bytes) ==
    IF Len(bytes) = 0 THEN <<>>
    ELSE IF Len(bytes) = 1
    THEN <<Base64Char(bytes[1] \div 4), Base64Char((bytes[1] % 4) * 16), 61, 61>>
    ELSE IF Len(bytes) = 2
    THEN <<Base64Char(bytes[1] \div 4),
           Base64Char((bytes[1] % 4) * 16 + (bytes[2] \div 16)),
           Base64Char((bytes[2] % 16) * 4), 61>>
    ELSE <<Base64Char(bytes[1] \div 4),
           Base64Char((bytes[1] % 4) * 16 + (bytes[2] \div 16)),
           Base64Char((bytes[2] % 16) * 4 + (bytes[3] \div 64)),
           Base64Char(bytes[3] % 64)>> \o bytesToBase64(SubSeq(bytes, 4, Len(bytes)))

RECURSIVE Base64Groups(_)
Base64Groups(str) ==
    IF Len(str) = 0 THEN <<>>
    ELSE IF Len(str) = 2
    THEN <<Base64Value(str[1]) * 4 + (Base64Value(str[2]) \div 16)>>
    ELSE IF Len(str) = 3
    THEN <<Base64Value(str[1]) * 4 + (Base64Value(str[2]) \div 16),
           (Base64Value(str[2]) % 16) * 16 + (Base64Value(str[3]) \div 4)>>
    ELSE <<Base64Value(str[1]) * 4 + (Base64Value(str[2]) \div 16),
           (Base64Value(str[2]) % 16) * 16 + (Base64Value(str[3]) \div 4),
           (Base64Value(str[3]) % 4) * 64 + Base64Value(str[4])>>
         \o Base64Groups(SubSeq(str, 5, Len(str)))

\* base64ToBytes: atob throws InvalidCharacterError on a code unit outside
\* the alphabet or a length of 1 modulo 4 once the padding is removed.
base64ToBytes(base64) ==
    Let(Len(base64), LAMBDA n :
    Let(IF n % 4 = 0 /\ n >= 2 /\ base64[n] = 61
        THEN (IF base64[n - 1] = 61 THEN 2 ELSE 1) ELSE 0, LAMBDA pads :
    Let(SubSeq(base64, 1, n - pads), LAMBDA body :
        IF (\E i \in 1..Len(body) : Base64Value(body[i]) < 0) \/ Len(body) % 4 = 1
        THEN Throw("InvalidCharacterError")
        ELSE Return(Base64Groups(body)))))

\* Encryption.generatePassword(): random bytes, base64-encoded.
generatePassword == bytesToBase64(GetRandomValues(PasswordLen, 2))

-----------------------------------------------------------------------------
(* KeyStorage: the 'signing-keys' object store of IndexedDB.                *)

Null == <<>>

\* db.put on an object store with keyPath 'id': the record replaces the one
\* with the same id.
IdbPutKeepOld(os, rec) == IF \E r \in os : r.id = rec.id THEN os ELSE os \cup {rec}

IdbPut(os, rec) == {r \in os : r.id # rec.id} \cup {rec}

\* db.get: the record with the key, or undefined.
IdbGet(os, key) ==
    IF \E r \in os : r.id = key THEN Some(CHOOSE r \in os : r.id = key) ELSE Undefined

\* db.delete and db.clear.
IdbDelete(os, key) == {r \in os : r.id # key}
IdbClear(os) == {}

\* storeKey, lines 128-136: the record of an encryption result.
StoreKeyRecord(credentialId, encrypted, metadata) ==
    [id |-> credentialId,
     encryptedKey |-> bytesToBase64(encrypted.encryptedData),
     iv |-> bytesToBase64(encrypted.iv),
     salt |-> bytesToBase64(encrypted.salt),
     timestamp |-> now,
     metadata |-> metadata]

\* retrieveKey, lines 164-185, on the outcome of db.get: null when the
\* record is missing and when anything in the try block throws.
RetrieveKeyFrom(record, password) ==
    IF record = Undefined THEN Null
    ELSE Let(base64ToBytes(record[1].encryptedKey), LAMBDA encryptedData :
         Let(base64ToBytes(record[1].iv), LAMBDA iv :
         Let(base64ToBytes(record[1].salt), LAMBDA salt :
             IF Threw(encryptedData) \/ Threw(iv) \/ Threw(salt) THEN Null
             ELSE Let(decrypt(Value(encryptedData), Value(iv), Value(salt), password),
                      LAMBDA privateKey :
                      IF Threw(privateKey) THEN Null
                      ELSE Some(Value(privateKey))))))

-----------------------------------------------------------------------------
(* The environment: random bytes, the clock, and whatever else is in the     *)
(* vault and in sessionStorage while an operation runs.                     *)

IdAlphabet == {97, 98}

StringsUpTo(alphabet, n) == UNION {[1..k -> alphabet] : k \in 0..n}

\* credentialId and userId values.
Identifiers == StringsUpTo(IdAlphabet, MaxIdLen)

AmbientInit ==
    /\ entropy = 0
    /\ now = 0

\* The next crypto.getRandomValues call draws from another seed.
\* One call of crypto.getRandomValues, or a run of them in one step: the
\* source moves on and does not come back to bytes it has given.
Draw ==
    /\ entropy < MaxDraws
    /\ entropy' = entropy + 1

\* Other code draws from the source.
OtherDraw ==
    /\ entropy < NumSeeds
    /\ entropy' = entropy + 1

Reseed ==
    /\ OtherDraw
    /\ UNCHANGED <<now, vaultVars, appVars, kd, sg, ci, srv, sd>>

\* Time passes.
Tick ==
    /\ now < MaxClock
    /\ now' = now + 1
    /\ UNCHANGED <<entropy, vaultVars, appVars, kd, sg, ci, srv, sd>>

-----------------------------------------------------------------------------
(* A caller of KeyDerivation: deriveSigningKey twice on the same            *)
(* arguments, the while loop of ensureValidPrivateKey one iteration a step. *)

Salts == {Undefined, Some(<<>>), Some(<<7>>)}

\* Candidates handed to ensureValidPrivateKey: the ends of the valid range
\* and of the KeyLen-byte range, and one whose first four hashes are all
\* n or more.
Candidates == {0, 1, CurveN - 1, CurveN, CurveN + 1, 256 * 256 - 1, 44626}

KdIdle ==
    [pc |-> "idle", credentialId |-> <<>>, userId |-> <<>>, salt |-> Undefined,
     derived |-> FALSE, input |-> <<>>, key |-> <<>>, iter |-> 0, calls |-> 0,
     first |-> <<>>, seed |-> 0]

KdInit == kd = KdIdle

\* deriveSigningKey(c, u, s) is called: lines 23-29, then the loop is entered.
KdCall(c, u, s) ==
    /\ kd.pc = "idle"
    /\ kd' = [KdIdle EXCEPT !.pc = "check", !.credentialId = c, !.userId = u,
                            !.salt = s, !.derived = TRUE,
                            !.input = deriveCandidate(c, u, s),
                            !.key = deriveCandidate(c, u, s),
                            !.calls = 1, !.seed = entropy]
    /\ UNCHANGED <<ambientVars, vaultVars, appVars, sg, ci, srv, sd>>

\* ensureValidPrivateKey is entered on a given candidate.
KdCandidate(cand) ==
    /\ kd.pc = "idle"
    /\ kd' = [KdIdle EXCEPT !.pc = "check", !.input = IntToBytes(cand),
                            !.key = IntToBytes(cand), !.calls = 1, !.seed = entropy]
    /\ UNCHANGED <<ambientVars, vaultVars, appVars, sg, ci, srv, sd>>

\* Line 43-44: the candidate is not valid, it is hashed again.
KdRehash ==
    /\ kd.pc = "check"
    /\ ~isValidSecretKey(kd.key)
    /\ kd' = [kd EXCEPT !.key = Sha256(kd.key),
                        !.iter = IF kd.iter < MaxIter THEN kd.iter + 1 ELSE kd.iter]
    /\ UNCHANGED <<ambientVars, vaultVars, appVars, sg, ci, srv, sd>>

\* Line 46: the candidate is valid and is returned.
KdReturn ==
    /\ kd.pc = "check"
    /\ isValidSecretKey(kd.key)
    /\ kd' = [kd EXCEPT !.pc = "returned"]
    /\ UNCHANGED <<ambientVars, vaultVars, appVars, sg, ci, srv, sd>>

\* The same arguments are derived from a second time.
KdCallAgain ==
    /\ kd.pc = "returned"
    /\ kd.derived
    /\ kd.calls = 1
    /\ kd' = [kd EXCEPT !.pc = "check", !.first = <<kd.key>>,
                        !.key = deriveCandidate(kd.credentialId, kd.userId, kd.salt),
                        !.iter = 0, !.calls = 2]
    /\ UNCHANGED <<ambientVars, vaultVars, appVars, sg, ci, srv, sd>>

\* The caller is done with the key.
KdDone ==
    /\ kd.pc = "returned"
    /\ kd' = KdIdle
    /\ UNCHANGED <<ambientVars, vaultVars, appVars, sg, ci, srv, sd>>

-----------------------------------------------------------------------------
(* Other users of the same origin: writes to the vault and to               *)
(* sessionStorage that do not come from the calls under observation.        *)

CredentialIds == {<<97>>, <<98>>}
UserIds == {<<117>>}

ByOther == 0

VaultInit ==
    /\ store = {}
    /\ session = [id \in CredentialIds |-> Null]
    /\ available = TRUE

\* What a put adds to the history: the salt and the iv of the record.
PutOf(record) == <<record.salt, record.iv>>

\* Another storeKey lands a record.
OtherStoreKey(id, key, password) ==
    /\ IdbGet(store, id) = Undefined
    /\ store' = IdbPut(store, StoreKeyRecord(id, encrypt(key, password), Undefined))
    /\ written' = [written EXCEPT ![id] =
                      Some([key |-> key, password |-> password, by |-> ByOther,
                            record |-> StoreKeyRecord(id, encrypt(key, password),
                                                      Undefined)])]
    /\ puts' = Append(puts, PutOf(StoreKeyRecord(id, encrypt(key, password),
                                                 Undefined)))
    /\ OtherDraw
    /\ UNCHANGED <<now, session, available, signingKey, tasks, ops, kd, sg, ci, srv, sd>>

\* clearAllKeys
OtherClearAllKeys ==
    /\ store # {}
    /\ store' = IdbClear(store)
    /\ written' = [id \in CredentialIds |-> Undefined]
    /\ UNCHANGED <<ambientVars, session, available, signingKey, tasks, puts, ops, kd, sg, ci, srv, sd>>

\* The password item of an id is set or removed.
OtherSession(id) ==
    /\ session' = [session EXCEPT ![id] =
                      IF @ = Null THEN Some(generatePassword) ELSE Null]
    /\ UNCHANGED <<ambientVars, store, available, appVars, kd, sg, ci, srv, sd>>

-----------------------------------------------------------------------------
(* A caller of MessageSigner: sign, sign again, verify, change one byte of  *)
(* the message, sign the changed message, verify the old signature on it.   *)

MessageBytes == {0, 104}
Messages == StringsUpTo(MessageBytes, MaxMsgLen)

SignerKeys ==
    {IntToBytes(1), IntToBytes(CurveN - 1),
     deriveSigningKey(<<97, 98>>, <<117>>, Undefined)}

\* The amounts a byte is changed by.
ByteDeltas == {1, 128}

SgIdle ==
    [pc |-> "idle", message |-> <<>>, privateKey |-> <<>>, signature |-> <<>>,
     again |-> <<>>, publicKey |-> <<>>, valid |-> FALSE, changed |-> <<>>,
     resigned |-> <<>>, stale |-> FALSE, seed |-> 0, clock |-> 0,
     kind |-> "", malformed |-> <<>>, accepted |-> FALSE,
     recovered |-> Return(<<>>)]

SgInit == sg = SgIdle

SgSign(m, k) ==
    /\ sg.pc = "idle"
    /\ sg' = [SgIdle EXCEPT !.pc = "signed", !.message = m, !.privateKey = k,
                            !.signature = signMessage(m, k),
                            !.seed = entropy, !.clock = now]
    /\ UNCHANGED <<ambientVars, vaultVars, appVars, kd, ci, srv, sd>>

SgSignAgain ==
    /\ sg.pc = "signed"
    /\ sg' = [sg EXCEPT !.pc = "signedAgain",
                        !.again = signMessage(sg.message, sg.privateKey)]
    /\ UNCHANGED <<ambientVars, vaultVars, appVars, kd, ci, srv, sd>>

SgGetPublicKey ==
    /\ sg.pc = "signedAgain"
    /\ sg' = [sg EXCEPT !.pc = "keyed", !.publicKey = getPublicKey(sg.privateKey)]
    /\ UNCHANGED <<ambientVars, vaultVars, appVars, kd, ci, srv, sd>>

SgVerify ==
    /\ sg.pc = "keyed"
    /\ sg' = [sg EXCEPT !.pc = "verified",
                        !.valid = verifySignature(sg.message, sg.signature,
                                                  sg.publicKey)]
    /\ UNCHANGED <<ambientVars, vaultVars, appVars, kd, ci, srv, sd>>

\* Byte i of the message is changed by d and the result is signed.
SgChange(i, d) ==
    /\ sg.pc = "verified"
    /\ i \in 1..Len(sg.message)
    /\ LET m == [sg.message EXCEPT ![i] = (@ + d) % 256]
       IN  sg' = [sg EXCEPT !.pc = "changed", !.changed = m,
                            !.resigned = signMessage(m, sg.privateKey)]
    /\ UNCHANGED <<ambientVars, vaultVars, appVars, kd, ci, srv, sd>>

SgVerifyStale ==
    /\ sg.pc = "changed"
    /\ sg' = [sg EXCEPT !.pc = "checked",
                        !.stale = verifySignature(sg.changed, sg.signature,
                                                  sg.publicKey)]
    /\ UNCHANGED <<ambientVars, vaultVars, appVars, kd, ci, srv, sd>>

\* Ways a signature string is not '0x' and 130 hex characters: too short
\* (the v characters, the last character or the 0x missing), too long
\* (characters appended), or with a character that is no hex digit (in r,
\* in s or in v).
Malformations ==
    {"withoutV", "withoutLast", "without0x", "extended", "nonHexR", "nonHexS",
     "nonHexV"}

Malform(signature, kind) ==
    IF kind = "withoutV" THEN SubSeq(signature, 1, Len(signature) - 2)
    ELSE IF kind = "withoutLast" THEN SubSeq(signature, 1, Len(signature) - 1)
    ELSE IF kind = "without0x" THEN SubSeq(signature, 3, Len(signature))
    ELSE IF kind = "extended" THEN signature \o <<102, 102>>
    ELSE IF kind = "nonHexR" THEN [signature EXCEPT ![3] = 103]
    ELSE IF kind = "nonHexS" THEN [signature EXCEPT ![3 + SigHexLen] = 103]
    ELSE [signature EXCEPT ![Len(signature)] = 103]

\* The signature is handed to verifySignature in a malformed encoding.
\* secp256k1.recoverPublicKeyAsync(recoveredSig, message, opts): the point R
\* is lifted from r (plus n when the recovery bit is 2 or 3) with the parity
\* the bit gives; the key is (s R - h G) / r, compressed.  Every failure
\* inside is thrown.
RecoverPublicKeyAsync(recoveredSig, message, opts) ==
    Let(IF opts.prehash THEN Sha256(message) ELSE message, LAMBDA digest :
    Let(SigFromBytesRecovered(recoveredSig), LAMBDA sig :
    Let(IF sig.recovery \in {2, 3} THEN sig.r + CurveN ELSE sig.r, LAMBDA radj :
        IF sig.recovery \notin 0..3 \/ Threw(NewSignature(sig.r, sig.s))
        THEN Throw("Error")
        ELSE IF radj >= FieldP THEN Throw("Error")
        ELSE Let(DecompressPoint(<<2 + (sig.recovery % 2)>> \o IntToBytes(radj)),
                 LAMBDA R :
             IF R = <<>> THEN Throw("Error")
             ELSE Let(InvMod(radj % CurveN, CurveN), LAMBDA ir :
                  Let(PointMul(((CurveN - Bits2IntModN(digest)) * ir) % CurveN, CurveG),
                      LAMBDA g1 :
                  Let(PointMul((sig.s * ir) % CurveN, R[1]), LAMBDA r2 :
                  Let(PointAdd(g1, r2), LAMBDA point :
                      IF point = Infinity THEN Throw("Error")
                      ELSE Return(CompressPoint(point))))))))))

RecoverOpts == [prehash |-> FALSE]

\* Lines 156-162 of recoverPublicKey, from the parsed r, s and v on.
RecoverEncoded(messageHash, recoveredSig) ==
    IF Threw(recoveredSig) THEN recoveredSig
    ELSE RecoverPublicKeyAsync(Value(recoveredSig), messageHash, RecoverOpts)

RecoverSigned(messageHash, sig) ==
    IF Threw(sig) THEN sig
    ELSE RecoverEncoded(messageHash, SigToBytesRecoveredChecked(Value(sig)))

\* recoverPublicKey with the trailing byte taken as the recovery id as it is.
RecoverParsedNoOffset(messageHash, r, s, v) ==
    IF Threw(r) THEN r
    ELSE IF Threw(s) THEN s
    ELSE RecoverSigned(messageHash, NewSignatureRecovery(Value(r), Value(s), v))

RecoverParsed(messageHash, r, s, v) ==
    IF Threw(r) THEN r
    ELSE IF Threw(s) THEN s
    ELSE RecoverSigned(messageHash,
                       NewSignatureRecovery(Value(r), Value(s),
                                            IF v >= RecoveryOffset
                                            THEN v - RecoveryOffset ELSE v))

\* Lines 150-152 of recoverPublicKey: r, s and v are cut out of the hex
\* digits and parsed.
RecoverSigHex(messageHash, sigHex) ==
    RecoverParsed(messageHash,
                  BigIntHex(Slice(sigHex, 0, SigHexLen)),
                  BigIntHex(Slice(sigHex, SigHexLen, 2 * SigHexLen)),
                  ParseInt16(Slice(sigHex, 2 * SigHexLen, 2 * SigHexLen + 2)))

\* MessageSigner.recoverPublicKey: nothing is caught, so what BigInt, the
\* Signature constructor, toBytes or the recovery throw is what the caller
\* gets.
recoverPublicKey(messageBytes, signature) ==
    RecoverSigHex(Sha256(prefixMessage(messageBytes)),
                  IF StartsWith0x(signature) THEN Slice(signature, 2, Len(signature))
                  ELSE signature)

SgVerifyMalformed(kind) ==
    /\ sg.pc = "verified"
    /\ sg' = [sg EXCEPT !.pc = "refused", !.kind = kind,
                        !.malformed = Malform(sg.signature, kind),
                        !.accepted = verifySignature(sg.message,
                                                     Malform(sg.signature, kind),
                                                     sg.publicKey)]
    /\ UNCHANGED <<ambientVars, vaultVars, appVars, kd, ci, srv, sd>>

SgRecover ==
    /\ sg.pc = "verified"
    /\ sg' = [sg EXCEPT !.pc = "recovered",
                        !.recovered = recoverPublicKey(sg.message, sg.signature)]
    /\ UNCHANGED <<ambientVars, vaultVars, appVars, kd, ci, srv, sd>>

\* The signature with its trailing byte v rewritten as the recovery id
\* v - 27, the form of signers that do not add the offset.
WithRawRecoveryId(signature) ==
    SubSeq(signature, 1, Len(signature) - 2)
        \o PadStart(ToHex(ParseInt16(SubSeq(signature, Len(signature) - 1,
                                            Len(signature))) - RecoveryOffset),
                    2, 48)

SgRecoverRaw ==
    /\ sg.pc = "verified"
    /\ sg' = [sg EXCEPT !.pc = "recoveredRaw",
                        !.malformed = WithRawRecoveryId(sg.signature),
                        !.recovered = recoverPublicKey(sg.message,
                                                       WithRawRecoveryId(sg.signature))]
    /\ UNCHANGED <<ambientVars, vaultVars, appVars, kd, ci, srv, sd>>

SgRecoverMalformed(kind) ==
    /\ sg.pc = "verified"
    /\ sg' = [sg EXCEPT !.pc = "unrecovered", !.kind = kind,
                        !.malformed = Malform(sg.signature, kind),
                        !.recovered = recoverPublicKey(sg.message,
                                                       Malform(sg.signature, kind))]
    /\ UNCHANGED <<ambientVars, vaultVars, appVars, kd, ci, srv, sd>>

SgDone ==
    /\ sg.pc \in {"verified", "checked", "refused", "recovered", "unrecovered"}
    /\ sg' = SgIdle
    /\ UNCHANGED <<ambientVars, vaultVars, appVars, kd, ci, srv, sd>>

-----------------------------------------------------------------------------
(* A caller of Encryption: encrypt, then decrypt what came back, or         *)
(* decrypt under another password, or decrypt after one byte of the         *)
(* ciphertext, the iv or the salt was changed.                              *)

Payloads == StringsUpTo({0, 200}, MaxMsgLen)

\* 'P', and a high and a low surrogate.
PasswordChars == {80, 55296, 56320}
Passwords == StringsUpTo(PasswordChars, MaxPwLen)

CipherFields == {"encryptedData", "iv", "salt"}

CiIdle ==
    [pc |-> "idle", data |-> <<>>, password |-> <<>>,
     encrypted |-> [encryptedData |-> <<>>, iv |-> <<>>, salt |-> <<>>],
     mode |-> "", given |-> [encryptedData |-> <<>>, iv |-> <<>>, salt |-> <<>>],
     tried |-> <<>>, result |-> Return(<<>>)]

CiInit == ci = CiIdle

CiEncrypt(d, pw) ==
    /\ ci.pc = "idle"
    /\ ci' = [CiIdle EXCEPT !.pc = "encrypted", !.data = d, !.password = pw,
                            !.encrypted = encrypt(d, pw)]
    /\ Draw
    /\ UNCHANGED <<now, vaultVars, appVars, kd, sg, srv, sd>>

\* decrypt(given.encryptedData, given.iv, given.salt, tried)
CiRun(mode, given, tried) ==
    /\ ci' = [ci EXCEPT !.pc = "decrypted", !.mode = mode, !.given = given,
                        !.tried = tried,
                        !.result = decrypt(given.encryptedData, given.iv,
                                           given.salt, tried)]
    /\ UNCHANGED <<ambientVars, vaultVars, appVars, kd, sg, srv, sd>>

CiDecrypt ==
    /\ ci.pc = "encrypted"
    /\ CiRun("same", ci.encrypted, ci.password)

CiDecryptOtherPassword(pw) ==
    /\ ci.pc = "encrypted"
    /\ pw # ci.password
    /\ CiRun("password", ci.encrypted, pw)

CiDecryptModified(f, i, d) ==
    /\ ci.pc = "encrypted"
    /\ i \in 1..Len(ci.encrypted[f])
    /\ CiRun("modified", [ci.encrypted EXCEPT ![f][i] = (@ + d) % 256], ci.password)

\* A byte is appended to one field.
CiDecryptExtended(f, b) ==
    /\ ci.pc = "encrypted"
    /\ CiRun("modified", [ci.encrypted EXCEPT ![f] = @ \o <<b>>], ci.password)

CiDone ==
    /\ ci.pc = "decrypted"
    /\ ci' = CiIdle
    /\ UNCHANGED <<ambientVars, vaultVars, appVars, kd, sg, srv, sd>>

-----------------------------------------------------------------------------
(* The calls of KeyStorage and of the PasskeyAuth component, one step for   *)
(* each stretch of code between two awaits.                                 *)

Tasks == {1, 2}

\* The credential the calls are about.
VaultIds == {<<97>>}

ByTamper == -1

StoreKeys == {IntToBytes(1), IntToBytes(CurveN - 1)}
StorePasswords == {<<80>>, <<55296>>, <<56320>>}

TaskIdle ==
    [op |-> "", pc |-> "idle", credentialId |-> <<>>, userId |-> <<>>,
     privateKey |-> <<>>, password |-> <<>>, metadata |-> Undefined,
     record |-> Undefined, got |-> Undefined, seen |-> Undefined,
     result |-> Null, miss |-> "", held |-> Null, wrote |-> FALSE, error |-> "",
     message |-> <<>>, signature |-> <<>>, signs |-> 0, signError |-> ""]

AppInit ==
    /\ signingKey = Null
    /\ tasks = [t \in Tasks |-> TaskIdle]
    /\ written = [id \in CredentialIds |-> Undefined]
    /\ puts = <<>>
    /\ ops = 0

\* A call starts when its task is free.
Start(t, task) ==
    /\ tasks[t].pc = "idle"
    /\ ops < MaxOps
    /\ tasks' = [tasks EXCEPT ![t] = task]
    /\ ops' = ops + 1
    /\ UNCHANGED <<ambientVars, vaultVars, signingKey, written, puts, kd, sg, ci, srv, sd>>

\* Where a call of storeKey or retrieveKey goes on once it has returned.
AfterStoreKey(task) == IF task.op = "storeKey" THEN "done" ELSE "das.session"
AfterRetrieveKey(task) == IF task.op = "retrieveKey" THEN "done" ELSE "load.branch"

\* The message of the Error the call ends with when storeKey throws: out of
\* storeKey's catch, and then out of the catch of each caller around it.
StoreKeyError == "Failed to store signing key"
DeriveAndStoreKeyError == "Failed to derive signing key"
LoadSigningKeyError == "Failed to load signing key"

ErrorOf(task) ==
    IF task.op = "storeKey" THEN StoreKeyError
    ELSE IF task.op = "deriveAndStoreKey" THEN DeriveAndStoreKeyError
    ELSE LoadSigningKeyError

\* storeKey, lines 141-144, and the catch blocks of deriveAndStoreKey
\* (part_002, 222-225) and loadSigningKey (257-260): the call ends by throwing.
StoreKeyThrows(t) ==
    tasks' = [tasks EXCEPT ![t].pc = "failed", ![t].error = ErrorOf(tasks[t])]

\* KeyStorage.storeKey(id, key, password) is called.
CallStoreKey(t, id, key, password) ==
    Start(t, [TaskIdle EXCEPT !.op = "storeKey", !.pc = "sk.encrypt",
                              !.credentialId = id, !.privateKey = key,
                              !.password = password])

\* storeKey, lines 121-136: Encryption.encrypt resolves, the record is built.
StoreKeyEncrypt(t) ==
    /\ tasks[t].pc = "sk.encrypt"
    /\ LET task      == tasks[t]
           encrypted == encrypt(task.privateKey, task.password)
           record    == StoreKeyRecord(task.credentialId, encrypted, task.metadata)
       IN  tasks' = [tasks EXCEPT ![t].pc = "sk.getDB", ![t].record = Some(record)]
    /\ Draw
    /\ UNCHANGED <<now, vaultVars, signingKey, written, puts, ops, kd, sg, ci, srv, sd>>

\* storeKey, line 139: the database is open.
StoreKeyGetDB(t) ==
    /\ tasks[t].pc = "sk.getDB"
    /\ IF available
       THEN tasks' = [tasks EXCEPT ![t].pc = "sk.put"]
       ELSE StoreKeyThrows(t)
    /\ UNCHANGED <<ambientVars, vaultVars, signingKey, written, puts, ops, kd, sg, ci, srv, sd>>

\* storeKey, line 140: db.put writes the record, and storeKey returns.
StoreKeyPut(t) ==
    /\ tasks[t].pc = "sk.put"
    /\ IF available
       THEN /\ store' = IdbPut(store, tasks[t].record[1])
            /\ written' = [written EXCEPT ![tasks[t].credentialId] =
                              Some([key |-> tasks[t].privateKey,
                                    password |-> tasks[t].password, by |-> t,
                                    record |-> tasks[t].record[1]])]
            /\ puts' = Append(puts, PutOf(tasks[t].record[1]))
            /\ tasks' = [tasks EXCEPT ![t].pc = AfterStoreKey(tasks[t]),
                                      ![t].wrote = TRUE]
       ELSE /\ StoreKeyThrows(t)
            /\ UNCHANGED <<store, written, puts>>
    /\ UNCHANGED <<ambientVars, session, available, signingKey, ops, kd, sg, ci, srv, sd>>

\* KeyStorage.retrieveKey(id, password) is called.
CallRetrieveKey(t, id, password) ==
    Start(t, [TaskIdle EXCEPT !.op = "retrieveKey", !.pc = "rk.getDB",
                              !.credentialId = id, !.password = password])

\* retrieveKey, lines 182-185: getDB or db.get rejected; null from the catch
\* block.
RetrieveKeyCatches(t) ==
    tasks' = [tasks EXCEPT ![t].result = Null, ![t].miss = "storage",
                           ![t].pc = AfterRetrieveKey(tasks[t])]

\* retrieveKey, line 159: the database is open.
RetrieveKeyGetDB(t) ==
    /\ tasks[t].pc = "rk.getDB"
    /\ IF available
       THEN tasks' = [tasks EXCEPT ![t].pc = "rk.get"]
       ELSE RetrieveKeyCatches(t)
    /\ UNCHANGED <<ambientVars, vaultVars, signingKey, written, puts, ops, kd, sg, ci, srv, sd>>

\* retrieveKey, lines 160-166: db.get resolves; null when there is no record.
RetrieveKeyGet(t) ==
    /\ tasks[t].pc = "rk.get"
    /\ IF available
       THEN LET record == IdbGet(store, tasks[t].credentialId)
            IN  tasks' = [tasks EXCEPT
                             ![t].got = record,
                             ![t].seen = written[tasks[t].credentialId],
                             ![t].pc = IF record = Undefined
                                       THEN AfterRetrieveKey(tasks[t])
                                       ELSE "rk.decrypt"]
       ELSE RetrieveKeyCatches(t)
    /\ UNCHANGED <<ambientVars, vaultVars, signingKey, written, puts, ops, kd, sg, ci, srv, sd>>

\* retrieveKey, lines 168-185: the fields are decoded and decrypted; null
\* from the catch block.
RetrieveKeyDecrypt(t) ==
    /\ tasks[t].pc = "rk.decrypt"
    /\ tasks' = [tasks EXCEPT
                    ![t].result = RetrieveKeyFrom(tasks[t].got, tasks[t].password),
                    ![t].pc = AfterRetrieveKey(tasks[t])]
    /\ UNCHANGED <<ambientVars, vaultVars, signingKey, written, puts, ops, kd, sg, ci, srv, sd>>

\* deriveAndStoreKey(credentialId, userId) is called.
CallDeriveAndStoreKey(t, id, u) ==
    Start(t, [TaskIdle EXCEPT !.op = "deriveAndStoreKey", !.pc = "das.derive",
                              !.credentialId = id, !.userId = u])

\* deriveAndStoreKey, lines 202-214: the key is derived, the password is
\* generated and storeKey is called with both.
DeriveAndStoreKeyDerive(t) ==
    /\ tasks[t].pc = "das.derive"
    /\ LET task == tasks[t]
       IN  tasks' = [tasks EXCEPT
                        ![t].privateKey =
                            deriveSigningKey(task.credentialId, task.userId, Undefined),
                        ![t].password = generatePassword,
                        ![t].metadata = Some([userId |-> task.userId,
                                              credentialId |-> task.credentialId]),
                        ![t].pc = "sk.encrypt"]
    /\ Draw
    /\ UNCHANGED <<now, vaultVars, signingKey, written, puts, ops, kd, sg, ci, srv, sd>>

\* deriveAndStoreKey, lines 218-221: storeKey returned; the password goes to
\* sessionStorage and the key to the component.
\* deriveAndStoreKey without its sessionStorage.setItem.
DeriveAndStoreKeyNoSession(t) ==
    /\ tasks[t].pc = "das.session"
    /\ signingKey' = Some(tasks[t].privateKey)
    /\ tasks' = [tasks EXCEPT ![t].held = Some(tasks[t].privateKey), ![t].pc = "done"]
    /\ UNCHANGED <<ambientVars, vaultVars, written, puts, ops, kd, sg, ci, srv, sd>>

DeriveAndStoreKeySession(t) ==
    /\ tasks[t].pc = "das.session"
    /\ session' = [session EXCEPT ![tasks[t].credentialId] = Some(tasks[t].password)]
    /\ signingKey' = Some(tasks[t].privateKey)
    /\ tasks' = [tasks EXCEPT ![t].held = Some(tasks[t].privateKey), ![t].pc = "done"]
    /\ UNCHANGED <<ambientVars, store, available, written, puts, ops, kd, sg, ci, srv, sd>>

\* loadSigningKey(credentialId, userId) is called, lines 234-248: without a
\* password in sessionStorage it goes to deriveAndStoreKey, with one to
\* retrieveKey.
CallLoadSigningKey(t, id, u) ==
    LET encryptionPassword == session[id]
        task == [TaskIdle EXCEPT !.op = "loadSigningKey", !.credentialId = id,
                                 !.userId = u]
    IN  IF encryptionPassword = Null \/ encryptionPassword = Some(<<>>)
        THEN Start(t, [task EXCEPT !.pc = "das.derive", !.miss = "password"])
        ELSE Start(t, [task EXCEPT !.pc = "rk.getDB",
                                   !.password = encryptionPassword[1]])

\* loadSigningKey without lines 250-254: the key is taken as retrieveKey
\* returned it.
LoadSigningKeyNoFallback(t) ==
    /\ tasks[t].pc = "load.branch"
    /\ signingKey' = tasks[t].result
    /\ tasks' = [tasks EXCEPT ![t].held = tasks[t].result, ![t].pc = "done"]
    /\ UNCHANGED <<ambientVars, vaultVars, written, puts, ops, kd, sg, ci, srv, sd>>

\* loadSigningKey, lines 250-256: retrieveKey returned.
LoadSigningKeyBranch(t) ==
    /\ tasks[t].pc = "load.branch"
    /\ IF tasks[t].result = Null
       THEN /\ tasks' = [tasks EXCEPT
                            ![t].pc = "das.derive",
                            ![t].miss = IF tasks[t].miss # "" THEN tasks[t].miss
                                        ELSE IF tasks[t].got = Undefined
                                        THEN "record" ELSE "decrypt"]
            /\ UNCHANGED signingKey
       ELSE /\ signingKey' = tasks[t].result
            /\ tasks' = [tasks EXCEPT ![t].held = tasks[t].result, ![t].pc = "done"]
    /\ UNCHANGED <<ambientVars, vaultVars, written, puts, ops, kd, sg, ci, srv, sd>>

\* The caller has its answer.
TaskReturn(t) ==
    /\ tasks[t].pc \in {"done", "failed"}
    /\ tasks' = [tasks EXCEPT ![t] = TaskIdle]
    /\ UNCHANGED <<ambientVars, vaultVars, signingKey, written, puts, ops, kd, sg, ci, srv, sd>>

\* The first character of one base64 field of a stored record is replaced:
\* by another letter of the alphabet, or by one outside it.
RecordFields == {"encryptedKey", "iv", "salt"}

TamperRecord(id, f, ch) ==
    /\ written[id] # Undefined
    /\ written[id][1].by # ByTamper
    /\ LET record == IdbGet(store, id)[1]
           first  == IF record[f][1] = ch THEN 66 ELSE ch
       IN  store' = IdbPut(store, [record EXCEPT ![f][1] = first])
    /\ written' = [written EXCEPT ![id][1].by = ByTamper]
    /\ UNCHANGED <<ambientVars, session, available, signingKey, tasks, puts, ops, kd, sg, ci, srv, sd>>

\* IndexedDB stops being usable (private browsing, quota, a blocked
\* upgrade), and becomes usable again.
Outage ==
    /\ available
    /\ available' = FALSE
    /\ UNCHANGED <<ambientVars, store, session, appVars, kd, sg, ci, srv, sd>>

Recover ==
    /\ ~available
    /\ available' = TRUE
    /\ UNCHANGED <<ambientVars, store, session, appVars, kd, sg, ci, srv, sd>>

\* KeyStorage.deleteKey(id)
DeleteKey(id) ==
    /\ written[id] # Undefined
    /\ store' = IdbDelete(store, id)
    /\ written' = [written EXCEPT ![id] = Undefined]
    /\ UNCHANGED <<ambientVars, session, available, signingKey, tasks, puts, ops, kd, sg, ci, srv, sd>>

\* handleLogout, lines 300-307: the password item is removed and the key
\* leaves the component.
Logout(id) ==
    /\ session[id] # Null
    /\ session' = [session EXCEPT ![id] = Null]
    /\ signingKey' = Null
    /\ UNCHANGED <<ambientVars, store, available, tasks, written, puts, ops, kd, sg, ci, srv, sd>>

-----------------------------------------------------------------------------
(* Specifications.                                                          *)

-----------------------------------------------------------------------------
(* The server: /api/register and /api/authenticate, options and verify.     *)

Challenges == {1, 2}
Usernames == {<<97>>}
ServerCredentialIds == {<<120>>}
Counters == {0, 1}

\* The body of a verify request: not JSON, JSON without a credential, or
\* JSON with the response of an authenticator, which signed a challenge,
\* carries a signature counter and passes or fails the other checks.
NoCredential(kind) ==
    [kind |-> kind, id |-> <<>>, challenge |-> 0, valid |-> FALSE, counter |-> 0]

Bodies ==
    {NoCredential("malformed"), NoCredential("none")}
        \cup [kind : {"credential"}, id : ServerCredentialIds, challenge : Challenges,
              valid : BOOLEAN, counter : Counters]

\* The cookies of a request are what the client sends.
ChallengeCookies == {Null} \cup {Some(c) : c \in Challenges}
UsernameCookies == {Null} \cup {Some(u) : u \in Usernames}

NoAnswer ==
    [route |-> "", body |-> NoCredential("none"), challenge |-> Null,
     username |-> Null, status |-> 0, wrote |-> FALSE, sessionCookies |-> Null]

SrvInit ==
    srv = [registrationChallenges |-> {}, authChallenges |-> {}, users |-> {},
           credentials |-> [id \in ServerCredentialIds |-> Undefined],
           last |-> NoAnswer]

\* The answer of a handler that wrote nothing and set no session cookie.
Refuse(route, body, challenge, username, status) ==
    [srv EXCEPT !.last = [route |-> route, body |-> body, challenge |-> challenge,
                          username |-> username, status |-> status,
                          wrote |-> FALSE, sessionCookies |-> Null]]

\* verifyRegistrationResponse of @simplewebauthn/server: it throws when the
\* challenge the authenticator signed is not the expected one and reports
\* verified otherwise, true when the other checks pass.
VerifyRegistrationResponse(response, expectedChallenge) ==
    IF response.challenge # expectedChallenge THEN Throw("Error")
    ELSE Return([verified |-> response.valid])

\* verifyAuthenticationResponse: as above, and it throws when either counter
\* is not zero and the new one is not above the stored one.
VerifyAuthenticationResponse(response, expectedChallenge, counter) ==
    IF response.challenge # expectedChallenge THEN Throw("Error")
    ELSE IF (response.counter > 0 \/ counter > 0) /\ response.counter <= counter
    THEN Throw("Error")
    ELSE Return([verified |-> response.valid, newCounter |-> response.counter])

\* POST /api/register/options.
PostRegisterOptions(username, challenge) ==
    /\ IF username = Null
       THEN srv' = Refuse("register/options", NoCredential("none"), Null, username, 400)
       ELSE srv' = [Refuse("register/options", NoCredential("none"), Null, username, 200)
                       EXCEPT !.registrationChallenges = @ \cup {challenge}]
    /\ UNCHANGED <<ambientVars, vaultVars, appVars, kd, sg, ci, sd>>

\* POST /api/authenticate/options.
PostAuthenticateOptions(username, challenge) ==
    /\ IF /\ username # Null
          /\ \/ username[1] \notin srv.users
             \/ \A id \in ServerCredentialIds :
                   \/ srv.credentials[id] = Undefined
                   \/ srv.credentials[id][1].username # username[1]
       THEN srv' = Refuse("authenticate/options", NoCredential("none"), Null, username, 404)
       ELSE srv' = [Refuse("authenticate/options", NoCredential("none"), Null, username, 200)
                       EXCEPT !.authChallenges = @ \cup {challenge}]
    /\ UNCHANGED <<ambientVars, vaultVars, appVars, kd, sg, ci, sd>>

\* The end of /api/register/verify, from prisma.user.upsert on.
RegisterVerified(body, challenge, username) ==
    IF srv.credentials[body.id] # Undefined
    THEN [Refuse("register/verify", body, challenge, username, 500)
             EXCEPT !.users = @ \cup {username[1]}]
    ELSE [srv EXCEPT
             !.users = @ \cup {username[1]},
             !.credentials[body.id] = Some([username |-> username[1],
                                            signCount |-> body.counter]),
             !.last = [route |-> "register/verify", body |-> body,
                       challenge |-> challenge, username |-> username,
                       status |-> 200, wrote |-> TRUE,
                       sessionCookies |-> Some([userId |-> username[1],
                                                credentialId |-> body.id])]]

RegisterVerification(body, challenge, username, verification) ==
    IF Threw(verification)
    THEN Refuse("register/verify", body, challenge, username, 500)
    ELSE IF ~Value(verification).verified
    THEN Refuse("register/verify", body, challenge, username, 400)
    ELSE RegisterVerified(body, challenge, username)

\* POST /api/register/verify.
PostRegisterVerify(body, challenge, username) ==
    /\ srv' =
          IF body.kind = "malformed"
          THEN Refuse("register/verify", body, challenge, username, 500)
          ELSE IF body.kind = "none"
          THEN Refuse("register/verify", body, challenge, username, 400)
          ELSE IF challenge = Null \/ username = Null
          THEN Refuse("register/verify", body, challenge, username, 400)
          ELSE RegisterVerification(body, challenge, username,
                                    VerifyRegistrationResponse(body, challenge[1]))
    /\ UNCHANGED <<ambientVars, vaultVars, appVars, kd, sg, ci, sd>>

\* The end of /api/authenticate/verify, from prisma.credential.update on.
AuthenticateVerified(body, challenge, storedCredential, newCounter) ==
    [srv EXCEPT
        !.credentials[body.id] = Some([storedCredential EXCEPT !.signCount = newCounter]),
        !.last = [route |-> "authenticate/verify", body |-> body,
                  challenge |-> challenge, username |-> Null,
                  status |-> 200, wrote |-> TRUE,
                  sessionCookies |-> Some([userId |-> storedCredential.username,
                                           credentialId |-> body.id])]]

AuthenticateVerification(body, challenge, storedCredential, verification) ==
    IF Threw(verification)
    THEN Refuse("authenticate/verify", body, challenge, Null, 500)
    ELSE IF ~Value(verification).verified
    THEN Refuse("authenticate/verify", body, challenge, Null, 400)
    ELSE AuthenticateVerified(body, challenge, storedCredential,
                              Value(verification).newCounter)

\* POST /api/authenticate/verify.
PostAuthenticateVerify(body, challenge) ==
    /\ srv' =
          IF body.kind = "malformed"
          THEN Refuse("authenticate/verify", body, challenge, Null, 500)
          ELSE IF body.kind = "none"
          THEN Refuse("authenticate/verify", body, challenge, Null, 400)
          ELSE IF challenge = Null
          THEN Refuse("authenticate/verify", body, challenge, Null, 400)
          ELSE IF srv.credentials[body.id] = Undefined
          THEN Refuse("authenticate/verify", body, challenge, Null, 404)
          ELSE AuthenticateVerification(
                   body, challenge, srv.credentials[body.id][1],
                   VerifyAuthenticationResponse(body, challenge[1],
                                                srv.credentials[body.id][1].signCount))
    /\ UNCHANGED <<ambientVars, vaultVars, appVars, kd, sg, ci, sd>>

-----------------------------------------------------------------------------
(* KeyStorage: the object store 'session-data'.                             *)

SessionKeys == {<<107>>}
\* The data stored: a string and a number.
SessionData == {[type |-> "string", value |-> <<97>>], [type |-> "number", value |-> <<1>>]}
ExpiresIns == {Undefined, Some(0), Some(1)}

\* JSON.stringify of a string and of a number: the string in double quotes,
\* the digits of the number.
JsonStringify(data) ==
    IF data.type = "string" THEN <<34>> \o data.value \o <<34>>
    ELSE [i \in 1..Len(data.value) |-> 48 + data.value[i]]

\* JSON.parse of such a text.
JsonParse(text) ==
    IF text # <<>> /\ Head(text) = 34
    THEN [type |-> "string", value |-> SubSeq(text, 2, Len(text) - 1)]
    ELSE [type |-> "number", value |-> [i \in 1..Len(text) |-> text[i] - 48]]

NoSessionCall ==
    [op |-> "", key |-> <<>>, result |-> Null, at |-> 0, stored |-> Undefined]

SdInit ==
    sd = [store |-> [key \in SessionKeys |-> Undefined],
          stored |-> [key \in SessionKeys |-> Undefined],
          last |-> NoSessionCall]

\* Date.now() while session data is in use.
SessionTick ==
    /\ now < MaxSessionClock
    /\ now' = now + 1
    /\ UNCHANGED <<entropy, vaultVars, appVars, kd, sg, ci, srv, sd>>

\* KeyStorage.storeSessionData(key, data, expiresIn).  sd.stored remembers
\* the arguments and the time of the call.
StoreSessionData(key, data, expiresIn) ==
    /\ available
    /\ sd' = [sd EXCEPT
                 !.store[key] =
                     Some([id |-> key, data |-> JsonStringify(data), timestamp |-> now,
                           expiresAt |-> IF expiresIn # Undefined /\ expiresIn[1] # 0
                                         THEN Some(now + expiresIn[1])
                                         ELSE Undefined]),
                 !.stored[key] = Some([data |-> data, expiresIn |-> expiresIn,
                                       at |-> now]),
                 !.last = [NoSessionCall EXCEPT !.op = "storeSessionData",
                                                !.key = key, !.at = now]]
    /\ UNCHANGED <<ambientVars, vaultVars, appVars, kd, sg, ci, srv>>

\* record.expiresAt && record.expiresAt < Date.now()
Expired(record) ==
    /\ record.expiresAt # Undefined
    /\ record.expiresAt[1] # 0
    /\ record.expiresAt[1] < now

\* KeyStorage.getSessionData(key).
GetSessionData(key) ==
    /\ available
    /\ IF sd.store[key] = Undefined
       THEN sd' = [sd EXCEPT !.last = [NoSessionCall EXCEPT
                                          !.op = "getSessionData", !.key = key,
                                          !.at = now, !.stored = sd.stored[key]]]
       ELSE IF Expired(sd.store[key][1])
       THEN sd' = [sd EXCEPT !.store[key] = Undefined,
                             !.stored[key] = Undefined,
                             !.last = [NoSessionCall EXCEPT
                                          !.op = "getSessionData", !.key = key,
                                          !.at = now, !.stored = sd.stored[key]]]
       ELSE sd' = [sd EXCEPT !.last = [NoSessionCall EXCEPT
                                          !.op = "getSessionData", !.key = key,
                                          !.at = now, !.stored = sd.stored[key],
                                          !.result = Some(JsonParse(sd.store[key][1].data))]]
    /\ UNCHANGED <<ambientVars, vaultVars, appVars, kd, sg, ci, srv>>

\* KeyStorage.deleteSessionData(key).
DeleteSessionData(key) ==
    /\ available
    /\ sd.store[key] # Undefined
    /\ sd' = [sd EXCEPT !.store[key] = Undefined, !.stored[key] = Undefined,
                        !.last = [NoSessionCall EXCEPT !.op = "deleteSessionData",
                                                       !.key = key, !.at = now]]
    /\ UNCHANGED <<ambientVars, vaultVars, appVars, kd, sg, ci, srv>>

\* KeyStorage.cleanupExpiredSessions.
CleanupExpiredSessions ==
    /\ available
    /\ \E key \in SessionKeys : sd.store[key] # Undefined
    /\ sd' = [sd EXCEPT
                 !.store = [key \in SessionKeys |->
                               IF @[key] # Undefined /\ Expired(@[key][1])
                               THEN Undefined ELSE @[key]],
                 !.stored = [key \in SessionKeys |->
                               IF sd.store[key] # Undefined /\ Expired(sd.store[key][1])
                               THEN Undefined ELSE @[key]],
                 !.last = [NoSessionCall EXCEPT !.op = "cleanupExpiredSessions",
                                                !.at = now]]
    /\ UNCHANGED <<ambientVars, vaultVars, appVars, kd, sg, ci, srv>>

Init ==
    /\ AmbientInit
    /\ VaultInit
    /\ AppInit
    /\ KdInit
    /\ SgInit
    /\ CiInit
    /\ SrvInit
    /\ SdInit

\* The vault and the component.
VaultNext ==
    \/ Reseed
    \/ \E t \in Tasks, id \in VaultIds :
          \/ \E key \in StoreKeys, password \in StorePasswords :
                CallStoreKey(t, id, key, password)
          \/ \E password \in StorePasswords \cup {session[id][i] : i \in 1..Len(session[id])} :
                CallRetrieveKey(t, id, password)
          \/ \E u \in UserIds : CallDeriveAndStoreKey(t, id, u)
          \/ \E u \in UserIds : CallLoadSigningKey(t, id, u)
    \/ \E t \in Tasks :
          \/ StoreKeyEncrypt(t)
          \/ StoreKeyGetDB(t)
          \/ StoreKeyPut(t)
          \/ RetrieveKeyGetDB(t)
          \/ RetrieveKeyGet(t)
          \/ RetrieveKeyDecrypt(t)
          \/ DeriveAndStoreKeyDerive(t)
          \/ DeriveAndStoreKeySession(t)
          \/ LoadSigningKeyBranch(t)
          \/ TaskReturn(t)
    \/ \E id \in VaultIds :
          \/ \E f \in RecordFields, ch \in {65, 33} : TamperRecord(id, f, ch)
          \/ DeleteKey(id)
          \/ Logout(id)

SpecVault == Init /\ [][VaultNext]_vars

\* deriveSigningKey and ensureValidPrivateKey under a changing environment.
KeysNext ==
    \/ Reseed
    \/ OtherStoreKey(<<97>>, IntToBytes(1), <<80>>)
    \/ OtherClearAllKeys
    \/ OtherSession(<<97>>)
    \/ \E c \in Identifiers, u \in Identifiers, salt \in Salts : KdCall(c, u, salt)
    \/ \E cand \in Candidates : KdCandidate(cand)
    \/ KdRehash
    \/ KdReturn
    \/ KdCallAgain
    \/ KdDone

SpecKeys == Init /\ [][KeysNext]_vars

\* MessageSigner under a changing environment.
SignerNext ==
    \/ Reseed
    \/ Tick
    \/ \E m \in Messages, k \in SignerKeys : SgSign(m, k)
    \/ SgSignAgain
    \/ SgGetPublicKey
    \/ SgVerify
    \/ \E i \in 1..MaxMsgLen, d \in ByteDeltas : SgChange(i, d)
    \/ SgVerifyStale
    \/ SgDone


SpecSigner == Init /\ [][SignerNext]_vars

\* Encryption under a changing environment.
CipherNext ==
    \/ Reseed
    \/ \E d \in Payloads, pw \in Passwords : CiEncrypt(d, pw)
    \/ CiDecrypt
    \/ \E pw \in Passwords : CiDecryptOtherPassword(pw)
    \/ \E f \in CipherFields, i \in 1..(MaxMsgLen + AesGcmTagLen), d \in ByteDeltas :
          CiDecryptModified(f, i, d)
    \/ \E f \in CipherFields, b \in {0, 1} : CiDecryptExtended(f, b)
    \/ CiDone

SpecCipher == Init /\ [][CipherNext]_vars

\* The component's key handling while the database comes and goes.
OutageNext ==
    \/ Outage
    \/ Recover
    \/ \E t \in Tasks, id \in VaultIds, u \in UserIds :
          \/ CallDeriveAndStoreKey(t, id, u)
          \/ CallLoadSigningKey(t, id, u)
    \/ \E t \in Tasks :
          \/ StoreKeyEncrypt(t)
          \/ StoreKeyGetDB(t)
          \/ StoreKeyPut(t)
          \/ RetrieveKeyGetDB(t)
          \/ RetrieveKeyGet(t)
          \/ RetrieveKeyDecrypt(t)
          \/ DeriveAndStoreKeyDerive(t)
          \/ DeriveAndStoreKeySession(t)
          \/ LoadSigningKeyBranch(t)
          \/ TaskReturn(t)
    \/ \E id \in VaultIds : Logout(id)

SpecOutage == Init /\ [][OutageNext]_vars

\* The whole program.
\* The signer, given signatures in encodings other than its own.
WireNext ==
    \/ \E m \in Messages, k \in SignerKeys : SgSign(m, k)
    \/ SgSignAgain
    \/ SgGetPublicKey
    \/ SgVerify
    \/ \E kind \in Malformations : SgVerifyMalformed(kind)
    \/ SgRecover
    \/ SgRecoverRaw
    \/ \E kind \in Malformations : SgRecoverMalformed(kind)
    \/ SgDone

SpecWire == Init /\ [][WireNext]_vars

-----------------------------------------------------------------------------
(* The page: register, authenticate, sign, log out.                         *)

\* String.prototype.trim over the white space the messages use.
WhiteSpace == {9, 10, 11, 12, 13, 32, 160}

RECURSIVE TrimStart(_)
TrimStart(str) ==
    IF str # <<>> /\ Head(str) \in WhiteSpace THEN TrimStart(Tail(str)) ELSE str

RECURSIVE TrimEnd(_)
TrimEnd(str) ==
    IF str # <<>> /\ str[Len(str)] \in WhiteSpace
    THEN TrimEnd(SubSeq(str, 1, Len(str) - 1))
    ELSE str

Trim(str) == TrimEnd(TrimStart(str))

AppMessages == {<<32>>, <<109>>}
AppKeys == {IntToBytes(1)}

\* handleSignMessage, in the session that register or authenticate call t
\* opened: the handler reads the message and the signing key of the page's
\* state and nothing else.
HandleSignMessage(t, message) ==
    /\ tasks[t].pc = "done"
    /\ tasks[t].op \in {"deriveAndStoreKey", "loadSigningKey"}
    /\ signingKey \in {Null, tasks[t].held}
    /\ tasks[t].signs < MaxSigns
    /\ IF Trim(message) = <<>>
       THEN tasks' = [tasks EXCEPT ![t].signError = "Message is required"]
       ELSE IF signingKey = Null
       THEN tasks' = [tasks EXCEPT ![t].signError = "No signing key available"]
       ELSE tasks' = [tasks EXCEPT
                         ![t].message = message,
                         ![t].signature = signMessage(TextEncode(message),
                                                      signingKey[1]),
                         ![t].signs = @ + 1,
                         ![t].signError = ""]
    /\ UNCHANGED <<ambientVars, vaultVars, signingKey, written, puts, ops, kd, sg, ci, srv, sd>>

\* The page's buttons are disabled while a call is in flight.
PageIdle == \A t \in Tasks : tasks[t].pc \in {"idle", "done", "closed"}

\* Between a logout and the next register or authenticate.
LoggedOut == signingKey = Null /\ \E t \in Tasks : tasks[t].pc = "closed"

\* handleLogout, pressed while no call is in flight: the cached password of
\* the credential is removed, the key, the user and the credential leave the
\* page's state, and the sessions opened so far are closed.
HandleLogout(id) ==
    /\ \E t \in Tasks : tasks[t].pc = "done" /\ tasks[t].credentialId = id
    /\ PageIdle
    /\ session' = [session EXCEPT ![id] = Null]
    /\ signingKey' = Null
    /\ tasks' = [t \in Tasks |->
                    IF tasks[t].pc = "done" THEN [tasks[t] EXCEPT !.pc = "closed"]
                    ELSE tasks[t]]
    /\ UNCHANGED <<ambientVars, store, available, written, puts, ops, kd, sg, ci, srv, sd>>

\* Another script of the origin stores a key under the cached password,
\* over whatever record is there.
OtherOverwriteKey(id, key) ==
    /\ session[id] # Null
    /\ store' = IdbPut(store, StoreKeyRecord(id, encrypt(key, session[id][1]),
                                             Undefined))
    /\ written' = [written EXCEPT ![id] =
                      Some([key |-> key, password |-> session[id][1], by |-> ByOther,
                            record |-> StoreKeyRecord(id, encrypt(key, session[id][1]),
                                                      Undefined)])]
    /\ puts' = Append(puts, PutOf(StoreKeyRecord(id, encrypt(key, session[id][1]),
                                                 Undefined)))
    /\ Draw
    /\ UNCHANGED <<now, session, available, signingKey, tasks, ops, kd, sg, ci, srv, sd>>

AppNext ==
    \/ \E id \in VaultIds, u \in UserIds :
          \/ PageIdle /\ CallDeriveAndStoreKey(1, id, u)
          \/ PageIdle /\ CallLoadSigningKey(2, id, u)
    \/ \E t \in Tasks :
          \/ StoreKeyEncrypt(t)
          \/ StoreKeyGetDB(t)
          \/ StoreKeyPut(t)
          \/ RetrieveKeyGetDB(t)
          \/ RetrieveKeyGet(t)
          \/ RetrieveKeyDecrypt(t)
          \/ DeriveAndStoreKeyDerive(t)
          \/ DeriveAndStoreKeySession(t)
          \/ LoadSigningKeyBranch(t)
    \/ \E t \in Tasks, message \in AppMessages : HandleSignMessage(t, message)
    \/ \E id \in VaultIds :
          \/ HandleLogout(id)
          \/ LoggedOut /\ DeleteKey(id)
          \/ LoggedOut /\ session[id] = Null /\ OtherSession(id)
    \/ \E id \in VaultIds, key \in AppKeys : LoggedOut /\ OtherOverwriteKey(id, key)
    \/ LoggedOut /\ OtherClearAllKeys

SpecApp == Init /\ [][AppNext]_vars

-----------------------------------------------------------------------------
(* The vault and the identity operations, called one after the other.       *)

SeqUserIds == {<<117>>, <<118>>}

\* No call is in flight and the last one has returned.
Quiet == \A t \in Tasks : tasks[t].pc = "idle"

\* KeyStorage.hasKey: the catch block turns a failure of getDB into false.
hasKey(os, avail, credentialId) ==
    IF avail THEN IdbGet(os, credentialId) # Undefined ELSE FALSE

CallHasKey(t, id) ==
    /\ tasks[t].pc = "idle"
    /\ tasks' = [tasks EXCEPT ![t] =
                    [TaskIdle EXCEPT !.op = "hasKey", !.pc = "done",
                                     !.credentialId = id, !.seen = Some(store),
                                     !.result = Some(hasKey(store, available, id))]]
    /\ UNCHANGED <<ambientVars, vaultVars, signingKey, written, puts, ops, kd, sg, ci, srv, sd>>

DeleteKeyError == "Failed to delete signing key"
ClearAllKeysError == "Failed to clear all signing keys"

\* KeyStorage.deleteKey.
CallDeleteKey(t, id) ==
    /\ tasks[t].pc = "idle"
    /\ IF available
       THEN /\ store' = IdbDelete(store, id)
            /\ written' = [written EXCEPT ![id] = Undefined]
            /\ tasks' = [tasks EXCEPT ![t] =
                            [TaskIdle EXCEPT !.op = "deleteKey", !.pc = "done",
                                             !.credentialId = id, !.seen = Some(store)]]
       ELSE /\ tasks' = [tasks EXCEPT ![t] =
                            [TaskIdle EXCEPT !.op = "deleteKey", !.pc = "failed",
                                             !.credentialId = id,
                                             !.error = DeleteKeyError]]
            /\ UNCHANGED <<store, written>>
    /\ UNCHANGED <<ambientVars, session, available, signingKey, puts, ops, kd, sg, ci, srv, sd>>

\* KeyStorage.clearAllKeys.
CallClearAllKeys(t) ==
    /\ tasks[t].pc = "idle"
    /\ IF available
       THEN /\ store' = IdbClear(store)
            /\ written' = [id \in CredentialIds |-> Undefined]
            /\ tasks' = [tasks EXCEPT ![t] =
                            [TaskIdle EXCEPT !.op = "clearAllKeys", !.pc = "done",
                                             !.seen = Some(store)]]
       ELSE /\ tasks' = [tasks EXCEPT ![t] =
                            [TaskIdle EXCEPT !.op = "clearAllKeys", !.pc = "failed",
                                             !.error = ClearAllKeysError]]
            /\ UNCHANGED <<store, written>>
    /\ UNCHANGED <<ambientVars, session, available, signingKey, puts, ops, kd, sg, ci, srv, sd>>

SeqNext ==
    \/ \E id \in CredentialIds, u \in SeqUserIds :
          \/ Quiet /\ CallDeriveAndStoreKey(1, id, u)
          \/ Quiet /\ CallLoadSigningKey(1, id, u)
    \/ \E id \in CredentialIds :
          \/ Quiet /\ CallHasKey(1, id)
          \/ Quiet /\ CallDeleteKey(1, id)
          \/ Quiet /\ Logout(id)
    \/ Quiet /\ CallClearAllKeys(1)
    \/ Quiet /\ Outage
    \/ Quiet /\ Recover
    \/ \E t \in Tasks :
          \/ StoreKeyEncrypt(t)
          \/ StoreKeyGetDB(t)
          \/ StoreKeyPut(t)
          \/ RetrieveKeyGetDB(t)
          \/ RetrieveKeyGet(t)
          \/ RetrieveKeyDecrypt(t)
          \/ DeriveAndStoreKeyDerive(t)
          \/ DeriveAndStoreKeySession(t)
          \/ LoadSigningKeyBranch(t)
          \/ TaskReturn(t)

SpecSeq == Init /\ [][SeqNext]_vars

-----------------------------------------------------------------------------
(* The server ceremony, and the session data.                               *)

ServerNext ==
    \/ \E username \in UsernameCookies, challenge \in Challenges :
          PostRegisterOptions(username, challenge)
    \/ \E username \in UsernameCookies, challenge \in Challenges :
          PostAuthenticateOptions(username, challenge)
    \/ \E body \in Bodies, challenge \in ChallengeCookies, username \in UsernameCookies :
          PostRegisterVerify(body, challenge, username)
    \/ \E body \in Bodies, challenge \in ChallengeCookies :
          PostAuthenticateVerify(body, challenge)

SpecServer == Init /\ [][ServerNext]_vars

SessionNext ==
    \/ SessionTick
    \/ \E key \in SessionKeys, data \in SessionData, expiresIn \in ExpiresIns :
          StoreSessionData(key, data, expiresIn)
    \/ \E key \in SessionKeys : GetSessionData(key)
    \/ \E key \in SessionKeys : DeleteSessionData(key)
    \/ CleanupExpiredSessions

SpecSession == Init /\ [][SessionNext]_vars

Next ==
    \/ KeysNext
    \/ SignerNext
    \/ WireNext
    \/ CipherNext
    \/ VaultNext
    \/ OutageNext
    \/ AppNext
    \/ SeqNext
    \/ ServerNext
    \/ SessionNext

Spec == Init /\ [][Next]_vars

-----------------------------------------------------------------------------
(* Properties of KeyDerivation, checked under SpecKeys.                     *)

\* C1: deriveSigningKey is deterministic. Two calls with the same
\* (credentialId, userId, salt) return the identical KeyLen-byte key,
\* whatever the vault holds, whatever passwords are cached, whatever the
\* random source gives and whatever was done in between.
DeriveSigningKeyDeterministic ==
    (kd.pc = "returned" /\ kd.derived) =>
        /\ Len(kd.key) = KeyLen
        /\ kd.key = deriveSigningKey(kd.credentialId, kd.userId, kd.salt)
        /\ kd.calls = 2 => kd.key = kd.first[1]

\* A second call has returned after the random source, the vault and the
\* cached passwords have changed.
DerivedTwiceInChangedEnvironment ==
    /\ kd.pc = "returned"
    /\ kd.calls = 2
    /\ kd.salt = Undefined
    /\ entropy # kd.seed
    /\ store # {}
    /\ session[<<97>>] # Null

\* C2: every key ensureValidPrivateKey returns, and so every key
\* deriveSigningKey returns, is a scalar k with 1 <= k <= n - 1, also when
\* the HKDF output is 0 or is n or more.
DerivedKeyInRange ==
    kd.pc = "returned" =>
        /\ Len(kd.key) = KeyLen
        /\ 1 <= BytesToInt(kd.key)
        /\ BytesToInt(kd.key) <= CurveN - 1

\* A candidate of n or more was hashed again and a key was returned.
InvalidCandidateRepaired ==
    /\ kd.pc = "returned"
    /\ BytesToInt(kd.input) >= CurveN
    /\ kd.iter > 0

-----------------------------------------------------------------------------
(* Properties of MessageSigner, checked under SpecSigner.                   *)

\* The length of a formatted signature: 0x, r, s and the recovery byte.
SignatureLen == 2 + 2 * SigHexLen + 2

\* C3: signMessage is deterministic. Two calls with the same (message, key)
\* return the identical signature of full length, whatever the random
\* source and the clock give and whatever was signed before.
SignMessageDeterministic ==
    sg.pc \notin {"idle", "signed"} =>
        /\ Len(sg.signature) = SignatureLen
        /\ sg.again = sg.signature

\* The message was signed a second time after the random source and the
\* clock had changed.
SignedTwiceInChangedEnvironment ==
    /\ sg.pc = "signedAgain"
    /\ Len(sg.message) = MaxMsgLen
    /\ entropy # sg.seed
    /\ now # sg.clock

\* C4: for every message and every valid key,
\* verifySignature(message, signMessage(message, key), getPublicKey(key))
\* is true.
SignatureVerifies ==
    sg.pc \in {"verified", "changed", "checked"} => sg.valid

\* A signature over a message of full length, made with a derived key, was
\* verified.
DerivedKeySignatureVerified ==
    /\ sg.pc = "verified"
    /\ Len(sg.message) = MaxMsgLen
    /\ sg.privateKey = deriveSigningKey(<<97, 98>>, <<117>>, Undefined)

\* C5: when one byte of the message is changed, the signature of the
\* changed message differs from the signature of the message, and the
\* signature of the message does not verify against the changed message.
ChangedByteChangesSignature ==
    /\ sg.pc \in {"changed", "checked"} => sg.resigned # sg.signature
    /\ sg.pc = "checked" => ~sg.stale

\* The old signature was checked against a message that differs from the
\* signed one in its last byte only.
StaleSignatureChecked ==
    /\ sg.pc = "checked"
    /\ Len(sg.message) = MaxMsgLen
    /\ sg.changed[MaxMsgLen] # sg.message[MaxMsgLen]
    /\ SubSeq(sg.changed, 1, MaxMsgLen - 1) = SubSeq(sg.message, 1, MaxMsgLen - 1)

-----------------------------------------------------------------------------
(* Properties of Encryption, checked under SpecCipher.                      *)

\* C6: encryption round trip. decrypt, given what encrypt(data, pw)
\* returned and the same pw, returns exactly data.
EncryptDecryptRoundTrip ==
    (ci.pc = "decrypted" /\ ci.mode = "same") => ci.result = Return(ci.data)

\* A payload of full length was encrypted to something else and decrypted
\* under the same password.
RoundTripOfFullPayload ==
    /\ ci.pc = "decrypted"
    /\ ci.mode = "same"
    /\ Len(ci.data) = MaxMsgLen
    /\ ci.password # <<>>
    /\ SubSeq(ci.encrypted.encryptedData, 1, Len(ci.data)) # ci.data

\* C7: decrypt with a password different from the one used to encrypt, or
\* with a modified ciphertext, iv or salt, never returns a plaintext: it
\* fails.
WrongPasswordOrModifiedFails ==
    (ci.pc = "decrypted" /\ ci.mode \in {"password", "modified"}) => Threw(ci.result)

-----------------------------------------------------------------------------
(* Properties of KeyStorage and of loadSigningKey, checked under SpecVault. *)

\* The record of id that the last storeKey wrote is still the one stored.
StoredBy(id) == IF written[id] = Undefined THEN ByOther ELSE written[id][1].by

\* C8: after storeKey(id, k, P1) has completed, and before any later write
\* or delete of id, retrieveKey(id, P1) returns exactly k and
\* retrieveKey(id, P2), for every P2 other than P1, returns null.
RetrieveKeyNeedsStorePassword ==
    \A t \in Tasks :
        (/\ tasks[t].op = "retrieveKey"
         /\ tasks[t].pc = "done"
         /\ tasks[t].seen # Undefined
         /\ tasks[t].seen[1].by \in Tasks) =>
            IF tasks[t].password = tasks[t].seen[1].password
            THEN tasks[t].result = Some(tasks[t].seen[1].key)
            ELSE tasks[t].result = Null

\* C9: when two storeKey calls for the same id with different passwords
\* have both finished, exactly one record exists for id, it is the complete
\* record of one of the two calls, retrieveKey with that call's password
\* returns its key and retrieveKey with the other call's password returns
\* null.
ConcurrentStoreKeyLeavesOneRecord ==
    \A t \in Tasks, u \in Tasks :
        (/\ t # u
         /\ tasks[t].op = "storeKey" /\ tasks[t].pc = "done"
         /\ tasks[u].op = "storeKey" /\ tasks[u].pc = "done"
         /\ tasks[t].credentialId = tasks[u].credentialId
         /\ tasks[t].password # tasks[u].password
         /\ StoredBy(tasks[t].credentialId) = t) =>
            /\ Cardinality({r \in store : r.id = tasks[t].credentialId}) = 1
            /\ IdbGet(store, tasks[t].credentialId) = tasks[t].record
            /\ RetrieveKeyFrom(IdbGet(store, tasks[t].credentialId), tasks[t].password)
                  = Some(tasks[t].privateKey)
            /\ RetrieveKeyFrom(IdbGet(store, tasks[t].credentialId), tasks[u].password)
                  = Null

\* C10: loadSigningKey falls back on every kind of miss. Without a cached
\* password, without a record, or when the record does not decrypt, it
\* derives the key again with deriveSigningKey, writes a vault record for
\* the credential and ends holding that key; without a miss it ends holding
\* the key it retrieved.
LoadSigningKeyFallsBack ==
    \A t \in Tasks :
        (tasks[t].op = "loadSigningKey" /\ tasks[t].pc = "done") =>
            /\ tasks[t].held # Null
            /\ tasks[t].miss # "" =>
                  /\ tasks[t].wrote
                  /\ tasks[t].held = Some(deriveSigningKey(tasks[t].credentialId,
                                                           tasks[t].userId, Undefined))

\* loadSigningKey has ended after a record that did not decrypt.
LoadedAfterDecryptFailure ==
    \E t \in Tasks :
        /\ tasks[t].op = "loadSigningKey"
        /\ tasks[t].pc = "done"
        /\ tasks[t].miss = "decrypt"
        /\ tasks[t].wrote


-----------------------------------------------------------------------------
(* Properties of the component's key handling, checked under SpecOutage.    *)

\* C11: the signing key is always obtainable when credentialId and userId
\* are known. Every deriveAndStoreKey and loadSigningKey call that has ended
\* has ended holding the derived key, also when the database could not be
\* read or written: it does not fail.
KeyObtainableWithoutVault ==
    \A t \in Tasks :
        (/\ tasks[t].op \in {"deriveAndStoreKey", "loadSigningKey"}
         /\ tasks[t].pc \in {"done", "failed"}) =>
            /\ tasks[t].pc = "done"
            /\ tasks[t].held = Some(deriveSigningKey(tasks[t].credentialId,
                                                     tasks[t].userId, Undefined))

-----------------------------------------------------------------------------
(* Further properties of KeyDerivation, checked under SpecKeys.             *)

\* C12: the re-hash loop of ensureValidPrivateKey is bounded. Once MaxIter
\* re-hashes have been made the loop has stopped, with a valid key or with
\* an exhaustion error: it is never about to hash an invalid candidate yet
\* another time.
RehashLoopBounded ==
    ~(kd.pc = "check" /\ kd.iter >= MaxIter /\ ~isValidSecretKey(kd.key))

-----------------------------------------------------------------------------
(* Further properties of KeyStorage, checked under SpecVault.               *)

\* C13: storeKey is last-write-wins per id. The vault holds at most one
\* record per id, and while the last write of id is a storeKey, the record
\* of id is the record that call built, whole: it has the id, and its
\* ciphertext, iv and salt decrypt under that call's password to that
\* call's key.
StoreKeyLastWriteWins ==
    \A id \in CredentialIds :
        /\ Cardinality({r \in store : r.id = id}) <= 1
        /\ (written[id] # Undefined /\ written[id][1].by # ByTamper) =>
              /\ IdbGet(store, id) = Some(written[id][1].record)
              /\ written[id][1].record.id = id
              /\ RetrieveKeyFrom(IdbGet(store, id), written[id][1].password)
                    = Some(written[id][1].key)

\* Two storeKey calls for one id have finished with different records, and
\* the record of the one whose put came last is stored.
SecondStoreKeyOverwrote ==
    \E t \in Tasks, u \in Tasks :
        /\ t # u
        /\ tasks[t].op = "storeKey" /\ tasks[t].pc = "done"
        /\ tasks[u].op = "storeKey" /\ tasks[u].pc = "done"
        /\ tasks[t].credentialId = tasks[u].credentialId
        /\ tasks[t].record # tasks[u].record
        /\ tasks[t].privateKey # tasks[u].privateKey
        /\ StoredBy(tasks[t].credentialId) = t

\* C14: retrieveKey never raises to its caller, and a missing record, a
\* wrong password and a corrupted record (ciphertext, iv or salt) all give
\* the same result, null.
RetrieveKeyAbsentOnEveryMiss ==
    \A t \in Tasks :
        (tasks[t].op = "retrieveKey" /\ tasks[t].pc \in {"done", "failed"}) =>
            /\ tasks[t].pc = "done"
            /\ (\/ tasks[t].got = Undefined
                \/ /\ tasks[t].seen # Undefined
                   /\ \/ tasks[t].seen[1].by = ByTamper
                      \/ tasks[t].password # tasks[t].seen[1].password) =>
                  tasks[t].result = Null

-----------------------------------------------------------------------------
(* Further properties of MessageSigner, checked under SpecSigner.           *)

\* C15: verifySignature never throws and returns false for every signature
\* that is malformed: shorter or longer than 0x and the full count of hex
\* characters, or with a character that is no hex digit.
MalformedSignatureRefused ==
    sg.pc = "refused" => ~sg.accepted

\* C16: recoverPublicKey fails with MalformedSignatureError for every
\* signature whose encoding has the wrong length or contains non-hex
\* characters, and returns no public key then.
MalformedSignatureNotRecovered ==
    sg.pc = "unrecovered" => sg.recovered = Throw("MalformedSignatureError")


\* C17: every output of signMessage is 0x followed by r zero-padded to
\* SigHexLen hex characters, s zero-padded to SigHexLen, and v in two hex
\* characters, with v the recovery id of the signing step plus 27.
SignatureWireFormat ==
    sg.pc # "idle" =>
        Let(SignFrom(sg.privateKey, Sha256(prefixMessage(sg.message)), <<>>, 0),
            LAMBDA made :
            /\ Len(sg.signature) = SignatureLen
            /\ sg.signature[1] = 48 /\ sg.signature[2] = 120
            /\ \A i \in 3..SignatureLen : HexValue(sg.signature[i]) >= 0
            /\ HexNumber(SubSeq(sg.signature, 3, 2 + SigHexLen)) = made.r
            /\ HexNumber(SubSeq(sg.signature, 3 + SigHexLen, 2 + 2 * SigHexLen))
                   = made.s
            /\ HexNumber(SubSeq(sg.signature, 3 + 2 * SigHexLen, SignatureLen))
                   = made.recovery + RecoveryOffset
            /\ made.recovery \in 0..3)

\* A signature whose r or s needs a padding zero has been made.
PaddedSignatureMade ==
    /\ sg.pc = "signed"
    /\ sg.signature[3] = 48 \/ sg.signature[3 + SigHexLen] = 48


\* C18: across every record storeKey has ever put, overwritten ones
\* included, no two records have the same salt and iv: each storeKey draws
\* both anew, also when the same key is stored again under the same id.
NoSaltIvReuse ==
    \A i \in 1..Len(puts) : \A j \in 1..Len(puts) : i # j => puts[i] # puts[j]

\* Two calls have put the same key under the same id.
SameKeyStoredTwice ==
    /\ Len(puts) >= 2
    /\ \E t \in Tasks : \E u \in Tasks \ {t} :
           /\ tasks[t].wrote /\ tasks[u].wrote
           /\ tasks[t].credentialId = tasks[u].credentialId
           /\ tasks[t].privateKey = tasks[u].privateKey


\* The signing keys the component and its calls hold or have stored.
KeysInPlay ==
    {tasks[t].privateKey : t \in Tasks}
        \cup {written[id][1].key : id \in {i \in CredentialIds : written[i] # Undefined}}
        \cup {signingKey[i] : i \in 1..Len(signingKey)}

\* The forms a key would be stored in if it were stored as it is.
PlainForms(key) == {key, bytesToBase64(key)}

\* C19: the signing key is never written in plaintext to IndexedDB or to
\* sessionStorage: every signing-keys record storeKey has put holds the
\* AES-GCM ciphertext of the key under the password, with its iv and salt,
\* and no field of it is the key; the session item is the vault password,
\* never a key.
KeyNeverStoredInPlaintext ==
    /\ \A id \in CredentialIds :
          (written[id] # Undefined /\ written[id][1].by # ByTamper) =>
              Let(IdbGet(store, id)[1], LAMBDA record :
              Let(written[id][1], LAMBDA w :
                  /\ DOMAIN record
                        = {"id", "encryptedKey", "iv", "salt", "timestamp", "metadata"}
                  /\ record.encryptedKey
                        = bytesToBase64(
                              AesGcmEncrypt(
                                  EncryptionKey(w.password,
                                                Value(base64ToBytes(record.salt))),
                                  Value(base64ToBytes(record.iv)), w.key))
                  /\ SubSeq(Value(base64ToBytes(record.encryptedKey)), 1, Len(w.key))
                        # w.key
                  /\ Len(Value(base64ToBytes(record.salt))) = SaltLen
                  /\ Len(Value(base64ToBytes(record.iv))) = IvLen))
    /\ \A record \in store : \A key \in KeysInPlay \ {<<>>} :
          /\ record.encryptedKey \notin PlainForms(key)
          /\ record.iv \notin PlainForms(key)
          /\ record.salt \notin PlainForms(key)
          /\ record.id \notin PlainForms(key)
          /\ record.metadata # Undefined =>
                /\ DOMAIN record.metadata[1] = {"userId", "credentialId"}
                /\ record.metadata[1].userId \notin PlainForms(key)
                /\ record.metadata[1].credentialId \notin PlainForms(key)
    /\ \A id \in CredentialIds : \A key \in KeysInPlay \ {<<>>} :
          session[id] # Null => session[id][1] \notin PlainForms(key)

\* A derived key is stored and its password is in the session.
DerivedKeyStoredWithSession ==
    \E t \in Tasks :
        /\ tasks[t].op = "deriveAndStoreKey" /\ tasks[t].pc = "done"
        /\ session[tasks[t].credentialId] = Some(tasks[t].password)
        /\ written[tasks[t].credentialId] # Undefined
        /\ written[tasks[t].credentialId][1].by = t
        /\ written[tasks[t].credentialId][1].key = tasks[t].privateKey
        /\ signingKey = Some(tasks[t].privateKey)


\* C20: deriveSigningKey called with an empty credentialId or an empty
\* userId is rejected with an InputValidationError and gives no key.
EmptyIdentifierRejected ==
    (kd.derived /\ kd.pc = "returned") =>
        (kd.credentialId # <<>> /\ kd.userId # <<>>)


-----------------------------------------------------------------------------
(* Properties of the page, checked under SpecApp.                           *)

\* C21: signatures are stable across sessions.  A message signed in a
\* session opened by register and closed by logout, and signed again in a
\* later session that authenticate opened for the same credential and user,
\* has the same signature both times, whatever happened to the vault record
\* and to the cached password in between.
SignatureStableAcrossSessions ==
    \A t \in Tasks, r \in Tasks :
        ( /\ tasks[t].op = "deriveAndStoreKey" /\ tasks[t].pc = "closed"
          /\ tasks[r].op = "loadSigningKey" /\ tasks[r].pc = "done"
          /\ tasks[t].signs > 0 /\ tasks[r].signs > 0
          /\ tasks[t].credentialId = tasks[r].credentialId
          /\ tasks[t].userId = tasks[r].userId
          /\ tasks[t].message = tasks[r].message )
        => tasks[t].signature = tasks[r].signature

\* C22: every signature takes a passkey verification of its own.  No
\* session, opened by one register or authenticate ceremony, signs more
\* than one message.
OneCeremonyPerSignature ==
    \A t \in Tasks : tasks[t].signs <= 1


-----------------------------------------------------------------------------
(* Properties of the vault as a cache, checked under SpecSeq.               *)

\* C23: when deriveAndStoreKey(credentialId, userId) has completed without
\* error and nothing else has run, the vault holds a record for
\* credentialId, session storage holds a password for credentialId, and
\* that password decrypts the record to deriveSigningKey(credentialId,
\* userId).
DeriveAndStoreLeavesUsableCache ==
    \A t \in Tasks :
        (tasks[t].op = "deriveAndStoreKey" /\ tasks[t].pc = "done") =>
            /\ IdbGet(store, tasks[t].credentialId) # Undefined
            /\ session[tasks[t].credentialId] # Null
            /\ RetrieveKeyFrom(IdbGet(store, tasks[t].credentialId),
                               session[tasks[t].credentialId][1])
                  = Some(deriveSigningKey(tasks[t].credentialId, tasks[t].userId,
                                          Undefined))

\* A second deriveAndStoreKey call has completed, after the first one
\* returned.
DerivedAndStoredOverOldRecord ==
    \E t \in Tasks :
        /\ tasks[t].op = "deriveAndStoreKey" /\ tasks[t].pc = "done"
        /\ ops = 2
        /\ Len(puts) = 2
        /\ tasks[t].userId = <<118>>

\* C24: removal touches only what it names.  After deleteKey(id), hasKey(id)
\* is false, retrieveKey(id, password) is absent for every password and the
\* records of the other ids are as they were; after clearAllKeys, hasKey is
\* false for every id; hasKey(id) answers true exactly when a record for id
\* is present, and leaves the vault as it was.
RemovalTouchesOnlyWhatItNames ==
    \A t \in Tasks :
        /\ (tasks[t].op = "deleteKey" /\ tasks[t].pc = "done") =>
              /\ ~hasKey(store, available, tasks[t].credentialId)
              /\ \A password \in StorePasswords :
                    RetrieveKeyFrom(IdbGet(store, tasks[t].credentialId), password) = Null
              /\ \A id \in CredentialIds \ {tasks[t].credentialId} :
                    IdbGet(store, id) = IdbGet(tasks[t].seen[1], id)
        /\ (tasks[t].op = "clearAllKeys" /\ tasks[t].pc = "done") =>
              \A id \in CredentialIds : ~hasKey(store, available, id)
        /\ (tasks[t].op = "hasKey" /\ tasks[t].pc = "done") =>
              /\ tasks[t].result = Some(IdbGet(store, tasks[t].credentialId) # Undefined)
              /\ store = tasks[t].seen[1]

\* C25: the vault is only a cache of the derivation.  The key that
\* loadSigningKey(credentialId, userId) ends up holding is
\* deriveSigningKey(credentialId, userId), whether it came from the vault or
\* from re-derivation.
LoadedKeyIsDerivedKey ==
    \A t \in Tasks :
        (tasks[t].op = "loadSigningKey" /\ tasks[t].pc = "done") =>
            tasks[t].held = Some(deriveSigningKey(tasks[t].credentialId,
                                                  tasks[t].userId, Undefined))


-----------------------------------------------------------------------------
(* Concurrent deriveAndStoreKey calls, checked under SpecVault.             *)

\* C26: cache consistency under interleaving.  When two deriveAndStoreKey
\* calls for the same credentialId have both completed, and the record that
\* one of them put and the password that one of them cached are still in
\* place, the cached password decrypts the record.
CachedPasswordDecryptsSurvivor ==
    \A t \in Tasks, u \in Tasks :
        ( /\ t # u
          /\ tasks[t].op = "deriveAndStoreKey" /\ tasks[t].pc = "done"
          /\ tasks[u].op = "deriveAndStoreKey" /\ tasks[u].pc = "done"
          /\ tasks[t].credentialId = tasks[u].credentialId
          /\ StoredBy(tasks[t].credentialId) \in {t, u}
          /\ session[tasks[t].credentialId]
                \in {Some(tasks[t].password), Some(tasks[u].password)} )
        => RetrieveKeyFrom(IdbGet(store, tasks[t].credentialId),
                           session[tasks[t].credentialId][1]) # Null


-----------------------------------------------------------------------------
(* Recovery, checked under SpecWire.                                        *)

\* C27: recovery round trip.  recoverPublicKey(message, signMessage(message,
\* key)) returns the public key of key, and so it does when the trailing
\* byte of the signature is the recovery id itself instead of 27 plus the
\* recovery id.
RecoveryRoundTrip ==
    sg.pc \in {"recovered", "recoveredRaw"} =>
        /\ sg.signature = signMessage(sg.message, sg.privateKey)
        /\ sg.recovered = Return(getPublicKey(sg.privateKey))

\* The key has been recovered from a signature of a derived key whose
\* trailing byte is the recovery id 1.
RecoveredFromRawRecoveryId ==
    /\ sg.pc = "recoveredRaw"
    /\ sg.privateKey = deriveSigningKey(<<97, 98>>, <<117>>, Undefined)
    /\ SubSeq(sg.malformed, Len(sg.malformed) - 1, Len(sg.malformed)) = <<48, 49>>


-----------------------------------------------------------------------------
(* The input key material, checked under SpecKeys.                          *)

\* C28: identifier binding.  The pair (credentialId, userId) of a
\* deriveSigningKey call gives HKDF an input key material that no other
\* pair of identifiers gives.
IdentifierBinding ==
    (kd.pc = "returned" /\ kd.derived) =>
        \A c \in Identifiers, u \in Identifiers :
            <<c, u>> # <<kd.credentialId, kd.userId>> =>
                InputKeyMaterial(c, u) # InputKeyMaterial(kd.credentialId, kd.userId)


-----------------------------------------------------------------------------
(* Properties of the server ceremony, checked under SpecServer.             *)

\* C29: challenge ordering.  /api/register/verify and
\* /api/authenticate/verify write a credential or set the session cookies
\* only when the request carries a challenge cookie that a preceding
\* /options call of the same ceremony set and the response verifies against
\* that challenge; without the challenge cookie they answer 400, write
\* nothing and set no session cookie.
ChallengeOrdering ==
    srv.last.route \in {"register/verify", "authenticate/verify"} =>
        /\ (srv.last.wrote \/ srv.last.sessionCookies # Null) =>
              /\ srv.last.challenge # Null
              /\ srv.last.challenge[1]
                    \in (IF srv.last.route = "register/verify"
                         THEN srv.registrationChallenges ELSE srv.authChallenges)
              /\ srv.last.body.kind = "credential"
              /\ srv.last.body.valid
              /\ srv.last.body.challenge = srv.last.challenge[1]
        /\ srv.last.challenge = Null =>
              /\ srv.last.status = 400
              /\ ~srv.last.wrote
              /\ srv.last.sessionCookies = Null

-----------------------------------------------------------------------------
(* Properties of the session data, checked under SpecSession.               *)

\* C30: session data expiry.  getSessionData(key) returns null and removes
\* the record when more than expiresIn milliseconds have passed since
\* storeSessionData(key, data, expiresIn), for every expiresIn, 0 included;
\* before that, and for a record stored without expiresIn, it returns the
\* stored data.
SessionDataExpiry ==
    (sd.last.op = "getSessionData" /\ sd.last.stored # Undefined) =>
        IF /\ sd.last.stored[1].expiresIn # Undefined
           /\ sd.last.at - sd.last.stored[1].at > sd.last.stored[1].expiresIn[1]
        THEN /\ sd.last.result = Null
             /\ sd.store[sd.last.key] = Undefined
        ELSE sd.last.result = Some(sd.last.stored[1].data)

=============================================================================
